---- MODULE Spec2Model ----
(***************************************************************************)
(* A model of the Link_chatbot repository: the crawler (crawl.py), the     *)
(* indexer (arabic_chatbot_final/rag.py) and the chat handler              *)
(* (arabic_chatbot_final/app.py).  Each component has its own              *)
(* specification over the shared state; the variables of the components    *)
(* that a specification does not run stay at their initial values.         *)
(***************************************************************************)
EXTENDS Integers, Sequences, FiniteSets, TLC

VARIABLES
    \* ---- crawl.py: KooraCrawler --------------------------------------
    cpc,          \* position of the caller: "idle", "crawl", "depth", "done", "aborted"
    rp,           \* self.rp, the RobotFileParser after __init__
    robotsRead,   \* how rp.read() ended in __init__
    visited,      \* self.visited
    queue,        \* self.queue
    pages_count,  \* local pages_count of crawl() / crawl_with_depth()
    max_pages,    \* self.max_pages
    dmax_pages,   \* the max_pages argument of crawl_with_depth (None: set = FALSE)
    max_depth,    \* the max_depth argument of crawl_with_depth
    dvisited,     \* local visited of crawl_with_depth
    dqueue,       \* local queue of crawl_with_depth: <<url, depth>> pairs
    results,      \* local results of crawl_with_depth (urls of the documents)
    csvRows,      \* rows appended to data/yallakora_pages.csv (urls)
    articles,     \* records appended to data/yallakora_articles.jsonl (urls)
    fetched,      \* urls passed to fetch() in the current invocation, in order
    requested,    \* urls for which session.get was issued in the current invocation
    raised,       \* the exception that left the invocation, or "none"
    invocations,  \* the methods called on the crawler so far, in order
    timeline,     \* the calls of fetch and of sleep in the current invocation
    walk,         \* per url of `fetched`: its depth, the response, the page's links
    \* ---- crawl.py: one call of normalize_link ---------------------------
    nl,           \* [href, page, result]
    \* ---- arabic_chatbot_final/rag.py: index_dataset ---------------------
    store,        \* the points of the Qdrant collection
    run,          \* per call slot: the arguments and locals of one index_dataset call
    runsStarted,  \* number of index_dataset calls made so far
    upserted,     \* every point a successful upsert has written: <<call, batch, k, point>>
    \* ---- arabic_chatbot_final/app.py: the chat handler ------------------
    sessions,         \* memory.sessions: session id -> [turns, slots, expectation]
    _db,              \* ticketapi._db: the booked tickets
    issued,           \* number of tickets book_ticket has issued
    MATCHES_BY_DATE,  \* date key -> number of loaded match records
    lastTurn,         \* the last turn: what the handler called and returned
    \* ---- arabic_chatbot_final/app.py: one POST /matches/search ----------
    fmm,              \* [q, now, corpus, result, status]
    \* ---- fetch_yallakora_all_matches.py and the files under data/ --------
    outFile,          \* data/yallakora_articles.jsonl: the Page Records, in order
    seenFile,         \* data/seen_urls.txt: its lines, in order
    fr,               \* the running fetcher: [pc, seen, days, links]
    fruns,            \* number of fetcher runs started
    kc,               \* the KooraCrawler built on the same data directory
    extracted,        \* every url passed to extract_page, over all runs
    written,          \* every Page Record ever written to outFile
    \* ---- rag.py: chunk_text ---------------------------------------------
    ck,               \* one call: [text, max_chars, chunks, returned]
    \* ---- prepare_koora_dataset.py: process --------------------------------
    prep,             \* one run: its arguments, input lines, position,
                      \* seen_hashes, output file and counters
    \* ---- extract_matches.py: extract_matches -----------------------------
    xm                \* one call: [pc, paths, p, i, seen_urls, rows]

crawlVars == <<cpc, rp, robotsRead, visited, queue, pages_count, max_pages,
               dmax_pages, max_depth, dvisited, dqueue, results, csvRows, articles,
               fetched, requested, raised, invocations, timeline, walk>>

normVars == <<nl>>

indexVars == <<store, run, runsStarted, upserted>>

chatVars == <<sessions, _db, issued, MATCHES_BY_DATE, lastTurn>>

lookupVars == <<fmm>>

fetchVars == <<outFile, seenFile, fr, fruns, kc, extracted, written>>

chunkVars == <<ck>>

prepVars == <<prep>>

matchVars == <<xm>>

vars == <<crawlVars, normVars, indexVars, chatVars, lookupVars, fetchVars, chunkVars, prepVars,
          matchVars>>

\* what the actions of one component leave alone
otherThanCrawl == <<normVars, indexVars, chatVars, lookupVars, fetchVars, chunkVars, prepVars, matchVars>>
otherThanNorm == <<crawlVars, indexVars, chatVars, lookupVars, fetchVars, chunkVars, prepVars, matchVars>>
otherThanIndex == <<crawlVars, normVars, chatVars, lookupVars, fetchVars, chunkVars, prepVars, matchVars>>
otherThanChat == <<crawlVars, normVars, indexVars, lookupVars, fetchVars, chunkVars, prepVars, matchVars>>
otherThanLookup == <<crawlVars, normVars, indexVars, chatVars, fetchVars, chunkVars, prepVars, matchVars>>
otherThanFetch == <<crawlVars, normVars, indexVars, chatVars, lookupVars, chunkVars, prepVars, matchVars>>
otherThanChunk == <<crawlVars, normVars, indexVars, chatVars, lookupVars, fetchVars, prepVars, matchVars>>
otherThanPrep == <<crawlVars, normVars, indexVars, chatVars, lookupVars, fetchVars, chunkVars, matchVars>>
otherThanMatch == <<crawlVars, normVars, indexVars, chatVars, lookupVars, fetchVars, chunkVars, prepVars>>

(***************************************************************************)
(* Bounds of the model.                                                    *)
(***************************************************************************)
MaxLinks == 2         \* anchors per fetched page
MaxPagesArg == 3      \* page budgets 0..MaxPagesArg
MaxDepthArg == 2      \* depth bounds 0..MaxDepthArg
MaxLines == 3         \* lines of a JSONL file given to index_dataset
MaxBatch == 2         \* batch sizes 1..MaxBatch
MaxLimit == 2         \* limits up to MaxLimit
MaxRuns == 2          \* index_dataset calls on one collection
MaxTickets == 1       \* tickets issued by book_ticket
MaxTurns == 3         \* user turns of one session
MaxFetchRuns == 2     \* runs of the date-range fetcher on one data directory
MaxCrawlers == 1      \* KooraCrawler objects built on that data directory
MaxTextChars == 5     \* characters of a text given to chunk_text
MaxChunkChars == 3    \* max_chars given to chunk_text
MaxDocs == 2          \* lines of the file given to the dataset preparer
MaxRecs == 2          \* records of the two files given to extract_matches

(***************************************************************************)
(* URLs.  A URL is what urlparse sees: scheme, netloc, path and the        *)
(* extension the path ends in.  The site has three paths: 0 is the empty   *)
(* path of the base URL, 1 an article-like path, 2 another page.           *)
(***************************************************************************)
Paths == {0, 1, 2}
Domain == "x.com"
Url(s, h, p, e) == [scheme |-> s, host |-> h, path |-> p, ext |-> e, frag |-> FALSE]
BaseUrl == Url("https", Domain, 0, "")

\* str.lower() on the hosts of the model
Lower(h) == IF h = "X.COM" THEN "x.com" ELSE h

\* the extensions of the regex in normalize_link (one representative)
NonDocExt == {"png"}

(***************************************************************************)
(* The href attribute values a page can carry.                             *)
(***************************************************************************)
Href(k, s, h, p, e, f) ==
    [kind |-> k, scheme |-> s, host |-> h, path |-> p, ext |-> e, frag |-> f]

HrefSet ==
    {Href("empty", "", "", 0, "", FALSE),              \* href=""
     Href("malformed", "http", "[::1", 0, "", FALSE),  \* href="http://[::1"
     Href("fragment", "", "", 0, "", TRUE),            \* href="#top"
     Href("absolute", "https", "other.com", 1, "", FALSE),
     Href("relative", "", "", 1, "png", FALSE)}        \* href="/1.png"
    \cup {Href("relative", "", "", p, "", FALSE) : p \in Paths}

\* the hrefs and pages normalize_link is applied to on its own
NormHrefs ==
    HrefSet
    \cup {Href("relative", "", "", p, e, f) :
             p \in Paths, e \in {"", "png"}, f \in BOOLEAN}
    \cup {Href("absolute", x[1], x[2], x[3], x[4], x[5]) :
             x \in {"http", "https", "mailto"}
                   \X {"x.com", "X.COM", "sub.x.com", "other.com"}
                   \X Paths \X {"", "png"} \X BOOLEAN}

NormPages == {Url(s, h, p, "") : s \in {"http", "https"}, h \in {"x.com", "X.COM"}, p \in Paths}

NoneResult == [tag |-> "None"]
ValueError == [tag |-> "ValueError"]

\* urldefrag(link)[0]: the link without its #fragment
urldefrag_kept(link) == link
urldefrag(link) == [link EXCEPT !.frag = FALSE]

\* urljoin(page_url, link): urlparse raises ValueError on an unbalanced
\* bracket in the authority; an href that is empty or only a fragment joins
\* to the page itself; a relative one takes the page's scheme and host.
urljoin(page_url, link) ==
    CASE link.kind = "malformed" -> ValueError
      [] link.kind = "fragment" -> [page_url EXCEPT !.frag = link.frag]
      [] link.kind = "relative" ->
            [Url(page_url.scheme, page_url.host, link.path, link.ext)
                EXCEPT !.frag = link.frag]
      [] OTHER -> [Url(link.scheme, link.host, link.path, link.ext)
                      EXCEPT !.frag = link.frag]

normalize_link(link, page_url) ==
    IF link.kind = "empty" THEN NoneResult
    ELSE LET j == urljoin(page_url, urldefrag(link)) IN
         IF j = ValueError THEN ValueError
         ELSE IF j.scheme \notin {"http", "https"} THEN NoneResult
         ELSE IF Lower(j.host) # Domain THEN NoneResult
         ELSE IF j.ext \in NonDocExt THEN NoneResult
         ELSE j

\* extract_links: the set of normalized links not in self.visited, or
\* ValueError when normalize_link raises on one of the anchors.
extract_links(hrefs, page_url, selfVisited) ==
    LET norms == {normalize_link(h, page_url) : h \in hrefs} IN
    IF ValueError \in norms THEN ValueError
    ELSE [tag |-> "links", links |-> (norms \ {NoneResult}) \ selfVisited]

\* list(links): a set is listed in an arbitrary order
Orders(S) == {s \in [1..Cardinality(S) -> S] : \A i, j \in DOMAIN s : s[i] = s[j] => i = j}

\* the a[href] anchors of a page that normalize to a url of the site
PageLinks(hrefs, page_url) ==
    {normalize_link(h, page_url) : h \in hrefs} \ {NoneResult, ValueError}

\* one fetch: the depth of the url, what fetch returned and the page's links
Visit(depth, resp, links) == [depth |-> depth, resp |-> resp, links |-> links]

PageContents == {H \in SUBSET HrefSet : Cardinality(H) <= MaxLinks}

(***************************************************************************)
(* looks_like_article: path 1 stands for "/news/12345", path 2 for         *)
(* "/about", path 0 for the empty path.                                    *)
(***************************************************************************)
PathHasKeyword(p) == p = 1
PathHasNumericId(p) == p = 1
PathSlashes(p) == IF p = 0 THEN 0 ELSE IF p = 1 THEN 2 ELSE 1
PathLen(p) == IF p = 0 THEN 0 ELSE IF p = 1 THEN 11 ELSE 6

looks_like_article(url) ==
    \/ PathHasKeyword(url.path)
    \/ PathHasNumericId(url.path)
    \/ (PathSlashes(url.path) >= 3 /\ PathLen(url.path) > 20)

(***************************************************************************)
(* robots.txt.  __init__ calls rp.read() and swallows what it raises.      *)
(***************************************************************************)
RobotsOutcomes == {"parsed", "http403", "http404", "http500", "raised"}
RobotsRules == {{}, {2}}      \* the paths a parsed robots.txt disallows

RobotFileParser(outcome, rules) ==
    [disallow_all |-> outcome = "http403",
     allow_all |-> outcome = "http404",
     last_checked |-> outcome = "parsed",
     disallowed |-> IF outcome = "parsed" THEN rules ELSE {}]

\* RobotFileParser.can_fetch as self.allowed calls it
can_fetch(r, url) ==
    IF r.disallow_all THEN FALSE
    ELSE IF r.allow_all THEN TRUE
    ELSE IF ~r.last_checked THEN FALSE
    ELSE url.path \notin r.disallowed

allowed(r, url) == can_fetch(r, url)

(***************************************************************************)
(* What the network answers to session.get.                                *)
(***************************************************************************)
Responses == {"html200", "other200", "html404", "RequestException"}

fetch(r, url, answer) ==
    IF ~allowed(r, url) THEN "None"
    ELSE IF answer = "RequestException" THEN "None"
    ELSE answer

Requested_always(req, r, url) == Append(req, url)

\* the requests issued so far, after fetch(url)
Requested(req, r, url) == IF allowed(r, url) THEN Append(req, url) ELSE req

\* the test `url in visited` of both loops
AlreadyVisited(url, vis) == url \in vis

MarkVisited_forgotten(vis, url) == vis

\* time.sleep(self.delay) / await asyncio.sleep(self.delay) after fetch
Sleep_skipped(calls) == calls
Sleep(calls) == Append(calls, "sleep")

\* `if depth < max_depth`: the links of the page are queued
DepthAllows_atbound(depth, bound) == depth <= bound
DepthAllows(depth, bound) == depth < bound

\* visited.add(url)
MarkVisited(vis, url) == vis \cup {url}

(***************************************************************************)
(* KooraCrawler.__init__, then the calls a caller makes on the object.     *)
(***************************************************************************)
NoBudget == [set |-> FALSE, n |-> 0]
Budget(n) == [set |-> TRUE, n |-> n]

KooraCrawler ==
    /\ cpc = "idle"
    /\ robotsRead \in RobotsOutcomes
    /\ \E rules \in RobotsRules :
          /\ (robotsRead # "parsed" => rules = {})
          /\ rp = RobotFileParser(robotsRead, rules)
    /\ visited = {}
    /\ queue = <<BaseUrl>>
    /\ pages_count = 0
    /\ max_pages \in 0..MaxPagesArg
    /\ dmax_pages = NoBudget
    /\ max_depth = 0
    /\ dvisited = {}
    /\ dqueue = <<>>
    /\ results = <<>>
    /\ csvRows = <<>>
    /\ articles = <<>>
    /\ fetched = <<>>
    /\ requested = <<>>
    /\ raised = "none"
    /\ invocations = <<>>
    /\ timeline = <<>>
    /\ walk = <<>>

\* crawler.crawl() is called
CallCrawl ==
    /\ cpc = "idle"
    /\ invocations = <<>>
    /\ cpc' = "crawl"
    /\ pages_count' = 0
    /\ fetched' = <<>>
    /\ timeline' = <<>>
    /\ walk' = <<>>
    /\ requested' = <<>>
    /\ invocations' = Append(invocations, "crawl")
    /\ UNCHANGED <<rp, robotsRead, visited, queue, max_pages, dmax_pages,
                   max_depth, dvisited, dqueue, results, csvRows, articles, raised>>
    /\ UNCHANGED otherThanCrawl

\* while self.queue and pages_count < self.max_pages
CrawlLoopCond == queue # <<>> /\ pages_count < max_pages

CrawlExit ==
    /\ cpc = "crawl"
    /\ ~CrawlLoopCond
    /\ cpc' = "done"
    /\ UNCHANGED <<rp, robotsRead, visited, queue, pages_count, max_pages,
                   dmax_pages, max_depth, dvisited, dqueue, results, csvRows,
                   articles, fetched, timeline, walk, requested, raised, invocations>>
    /\ UNCHANGED otherThanCrawl

\* url = self.queue.pop(0); if url in self.visited: continue
CrawlSkipVisited ==
    /\ cpc = "crawl"
    /\ CrawlLoopCond
    /\ AlreadyVisited(Head(queue), visited)
    /\ queue' = Tail(queue)
    /\ UNCHANGED <<cpc, rp, robotsRead, visited, pages_count, max_pages,
                   dmax_pages, max_depth, dvisited, dqueue, results, csvRows,
                   articles, fetched, timeline, walk, requested, raised, invocations>>
    /\ UNCHANGED otherThanCrawl

\* fetch returned None (robots, or a RequestException): continue
CrawlFetchNone ==
    /\ cpc = "crawl"
    /\ CrawlLoopCond
    /\ ~AlreadyVisited(Head(queue), visited)
    /\ \E answer \in Responses :
          /\ fetch(rp, Head(queue), answer) = "None"
          /\ requested' = Requested(requested, rp, Head(queue))
    /\ walk' = Append(walk, Visit(0, "None", {}))
    /\ visited' = MarkVisited(visited, Head(queue))
    /\ fetched' = Append(fetched, Head(queue))
    /\ timeline' = Sleep(Append(timeline, "fetch"))
    /\ queue' = Tail(queue)
    /\ UNCHANGED <<cpc, rp, robotsRead, pages_count, max_pages, dmax_pages,
                   max_depth, dvisited, dqueue, results, csvRows, articles,
                   raised, invocations>>
    /\ UNCHANGED otherThanCrawl

\* a response that is not a 200 HTML page: only the CSV row is written
CrawlOtherPage ==
    /\ cpc = "crawl"
    /\ CrawlLoopCond
    /\ ~AlreadyVisited(Head(queue), visited)
    /\ \E answer \in Responses :
          /\ fetch(rp, Head(queue), answer) \in {"other200", "html404"}
          /\ walk' = Append(walk, Visit(0, fetch(rp, Head(queue), answer), {}))
    /\ visited' = MarkVisited(visited, Head(queue))
    /\ fetched' = Append(fetched, Head(queue))
    /\ timeline' = Sleep(Append(timeline, "fetch"))
    /\ requested' = Requested(requested, rp, Head(queue))
    /\ queue' = Tail(queue)
    /\ \E csvWritten \in BOOLEAN :
          IF csvWritten
          THEN /\ csvRows' = Append(csvRows, Head(queue))
               /\ pages_count' = pages_count + 1
               /\ UNCHANGED <<cpc, raised>>
          ELSE /\ cpc' = "aborted"
               /\ raised' = "OSError"
               /\ UNCHANGED <<csvRows, pages_count>>
    /\ UNCHANGED <<rp, robotsRead, max_pages, dmax_pages, max_depth, dvisited,
                   dqueue, results, articles, invocations>>
    /\ UNCHANGED otherThanCrawl

\* a 200 HTML page: links are queued, an article is saved, the CSV row written
CrawlHtmlPage ==
    /\ cpc = "crawl"
    /\ CrawlLoopCond
    /\ ~AlreadyVisited(Head(queue), visited)
    /\ \E answer \in Responses : fetch(rp, Head(queue), answer) = "html200"
    /\ visited' = MarkVisited(visited, Head(queue))
    /\ fetched' = Append(fetched, Head(queue))
    /\ timeline' = Sleep(Append(timeline, "fetch"))
    /\ requested' = Requested(requested, rp, Head(queue))
    /\ \E hrefs \in PageContents :
          LET links == extract_links(hrefs, Head(queue), visited') IN
          /\ walk' = Append(walk, Visit(0, "html200", PageLinks(hrefs, Head(queue))))
          /\ IF links = ValueError
             THEN /\ queue' = Tail(queue)
                  /\ cpc' = "aborted"
                  /\ raised' = "ValueError"
                  /\ UNCHANGED <<articles, csvRows, pages_count>>
             ELSE \E order \in Orders(links.links) :
                  \E artEmpty \in BOOLEAN :
                  \E io \in {"ok", "jsonlFails", "csvFails"} :
                     /\ queue' = Tail(queue) \o order
                     /\ LET saves == looks_like_article(Head(queue)) /\ ~artEmpty IN
                        IF saves /\ io = "jsonlFails"
                        THEN /\ cpc' = "aborted"
                             /\ raised' = "OSError"
                             /\ UNCHANGED <<articles, csvRows, pages_count>>
                        ELSE /\ articles' = IF saves THEN Append(articles, Head(queue))
                                            ELSE articles
                             /\ IF io = "csvFails"
                                THEN /\ cpc' = "aborted"
                                     /\ raised' = "OSError"
                                     /\ UNCHANGED <<csvRows, pages_count>>
                                ELSE /\ csvRows' = Append(csvRows, Head(queue))
                                     /\ pages_count' = pages_count + 1
                                     /\ UNCHANGED <<cpc, raised>>
    /\ UNCHANGED <<rp, robotsRead, max_pages, dmax_pages, max_depth, dvisited,
                   dqueue, results, invocations>>
    /\ UNCHANGED otherThanCrawl

(***************************************************************************)
(* crawl_with_depth(start_url=None, max_depth, max_pages)                  *)
(***************************************************************************)
DepthBudgets == {NoBudget} \cup {Budget(n) : n \in 0..MaxPagesArg}

\* self.max_pages is never read by crawl_with_depth: the call is made on
\* the crawlers built with one value of it
CallCrawlWithDepth ==
    /\ cpc = "idle"
    /\ invocations = <<>>
    /\ max_pages = MaxPagesArg
    /\ cpc' = "depth"
    /\ max_depth' \in 0..MaxDepthArg
    /\ dmax_pages' \in DepthBudgets
    /\ dvisited' = {}
    /\ dqueue' = <<<<BaseUrl, 0>>>>
    /\ results' = <<>>
    /\ pages_count' = 0
    /\ fetched' = <<>>
    /\ timeline' = <<>>
    /\ walk' = <<>>
    /\ requested' = <<>>
    /\ invocations' = Append(invocations, "crawl_with_depth")
    /\ UNCHANGED <<rp, robotsRead, visited, queue, max_pages, csvRows, articles, raised>>
    /\ UNCHANGED otherThanCrawl

\* queue.append((lnk, depth + 1)) for each new link, in turn
Enqueue_front(q, children) == children \o q
Enqueue(q, children) == q \o children

DUrl == Head(dqueue)[1]
DDepth == Head(dqueue)[2]

\* while queue
DepthExit ==
    /\ cpc = "depth"
    /\ dqueue = <<>>
    /\ cpc' = "done"
    /\ UNCHANGED <<rp, robotsRead, visited, queue, pages_count, max_pages,
                   dmax_pages, max_depth, dvisited, dqueue, results, csvRows,
                   articles, fetched, timeline, walk, requested, raised, invocations>>
    /\ UNCHANGED otherThanCrawl

\* if url in visited or depth > max_depth: continue
DepthSkip ==
    /\ cpc = "depth"
    /\ dqueue # <<>>
    /\ (AlreadyVisited(DUrl, dvisited) \/ DDepth > max_depth)
    /\ dqueue' = Tail(dqueue)
    /\ UNCHANGED <<cpc, rp, robotsRead, visited, queue, pages_count, max_pages,
                   dmax_pages, max_depth, dvisited, results, csvRows, articles,
                   fetched, timeline, walk, requested, raised, invocations>>
    /\ UNCHANGED otherThanCrawl

DepthProcesses ==
    /\ cpc = "depth"
    /\ dqueue # <<>>
    /\ ~(AlreadyVisited(DUrl, dvisited) \/ DDepth > max_depth)

\* resp is None, or the page is not a 200 HTML page: continue
DepthNoPage ==
    /\ DepthProcesses
    /\ \E answer \in Responses :
          /\ fetch(rp, DUrl, answer) \in {"None", "other200", "html404"}
          /\ walk' = Append(walk, Visit(DDepth, fetch(rp, DUrl, answer), {}))
    /\ dvisited' = MarkVisited(dvisited, DUrl)
    /\ fetched' = Append(fetched, DUrl)
    /\ timeline' = Sleep(Append(timeline, "fetch"))
    /\ requested' = Requested(requested, rp, DUrl)
    /\ dqueue' = Tail(dqueue)
    /\ UNCHANGED <<cpc, rp, robotsRead, visited, queue, pages_count, max_pages,
                   dmax_pages, max_depth, results, csvRows, articles, raised,
                   invocations>>
    /\ UNCHANGED otherThanCrawl

\* a 200 HTML page: a document is collected, the budget tested, links queued
DepthHtmlPage ==
    /\ DepthProcesses
    /\ \E answer \in Responses : fetch(rp, DUrl, answer) = "html200"
    /\ dvisited' = MarkVisited(dvisited, DUrl)
    /\ fetched' = Append(fetched, DUrl)
    /\ timeline' = Sleep(Append(timeline, "fetch"))
    /\ requested' = Requested(requested, rp, DUrl)
    /\ \E longText \in BOOLEAN :
          /\ results' = IF longText THEN Append(results, DUrl) ELSE results
          /\ pages_count' = IF longText THEN pages_count + 1 ELSE pages_count
    /\ \E hrefs \in PageContents :
          /\ walk' = Append(walk, Visit(DDepth, "html200", PageLinks(hrefs, DUrl)))
          /\ IF dmax_pages.set /\ pages_count' >= dmax_pages.n
             THEN /\ cpc' = "done"
                  /\ dqueue' = Tail(dqueue)
                  /\ UNCHANGED raised
             ELSE IF DepthAllows(DDepth, max_depth)
             THEN LET links == extract_links(hrefs, DUrl, visited) IN
                  IF links = ValueError
                  THEN /\ cpc' = "aborted"
                       /\ raised' = "ValueError"
                       /\ dqueue' = Tail(dqueue)
                  ELSE \E order \in Orders(links.links \ dvisited') :
                          /\ dqueue' = Enqueue(Tail(dqueue),
                                               [i \in DOMAIN order |-> <<order[i], DDepth + 1>>])
                          /\ UNCHANGED <<cpc, raised>>
             ELSE /\ dqueue' = Tail(dqueue)
                  /\ UNCHANGED <<cpc, raised>>
    /\ UNCHANGED <<rp, robotsRead, visited, queue, max_pages, dmax_pages,
                   max_depth, csvRows, articles, invocations>>
    /\ UNCHANGED otherThanCrawl

CrawlNext ==
    \/ CallCrawl
    \/ CrawlExit
    \/ CrawlSkipVisited
    \/ CrawlFetchNone
    \/ CrawlOtherPage
    \/ CrawlHtmlPage
    \/ CallCrawlWithDepth
    \/ DepthExit
    \/ DepthSkip
    \/ DepthNoPage
    \/ DepthHtmlPage


CrawlIdle ==
    /\ cpc = "idle"
    /\ robotsRead = "parsed"
    /\ rp = RobotFileParser("parsed", {})
    /\ visited = {}
    /\ queue = <<BaseUrl>>
    /\ pages_count = 0
    /\ max_pages = 0
    /\ dmax_pages = NoBudget
    /\ max_depth = 0
    /\ dvisited = {}
    /\ dqueue = <<>>
    /\ results = <<>>
    /\ csvRows = <<>>
    /\ articles = <<>>
    /\ fetched = <<>>
    /\ requested = <<>>
    /\ raised = "none"
    /\ invocations = <<>>
    /\ timeline = <<>>
    /\ walk = <<>>

(***************************************************************************)
(* normalize_link on its own: one call on an href and a page url.          *)
(***************************************************************************)
NotApplied == [tag |-> "not applied"]

NormIdle == nl = [href |-> Href("empty", "", "", 0, "", FALSE), page |-> BaseUrl,
                  result |-> NotApplied]

NormInputs ==
    \E h \in NormHrefs, u \in NormPages :
        nl = [href |-> h, page |-> u, result |-> NotApplied]

NormalizeLink ==
    /\ nl.result = NotApplied
    /\ nl' = [nl EXCEPT !.result = normalize_link(nl.href, nl.page)]
    /\ UNCHANGED otherThanNorm

NormNext == NormalizeLink

(***************************************************************************)
(* index_dataset (rag.py).  A JSONL file is a sequence of lines; a line is *)
(* blank, a // comment, invalid JSON, valid JSON that is no object, or a   *)
(* chunk record.  Texts "t1" and "t2" have at least 40 characters, "short" *)
(* has fewer.                                                              *)
(***************************************************************************)
MinTextLen == 40

Line(k, u, i, t) == [kind |-> k, url |-> u, chunk_index |-> i, text |-> t]
BlankLine == Line("blank", "", 0, "")
CommentLine == Line("comment", "", 0, "")
InvalidJson == Line("invalid", "", 0, "")
NonObject == Line("nonobject", "", 0, "")
Record(u, i, t) == Line("record", u, i, t)

TextLen(t) == IF t = "" THEN 0 ELSE IF t = "short" THEN 10 ELSE 50

\* `not line or line.startswith("//")`, and json.loads raising JSONDecodeError
SkippedLine(l) == l.kind \in {"blank", "comment", "invalid"}

\* `not txt or len(txt) < 40`
TooShort(l) == l.text = "" \/ TextLen(l.text) < MinTextLen

ValidRecord(l) == l.kind = "record" /\ ~TooShort(l)

RECURSIVE ValidCount(_)
ValidCount(ds) ==
    IF ds = <<>> THEN 0
    ELSE (IF ValidRecord(Head(ds)) THEN 1 ELSE 0) + ValidCount(Tail(ds))

NoLimit == [set |-> FALSE, n |-> 0]
Limit(n) == [set |-> TRUE, n |-> n]

\* sha1(src + "|" + idx + "|" + sha1(txt)), taken as free of collisions
PointId(src, idx, txt) == <<src, idx, txt>>

MakePoint_uuid(ln, ts, call, batch, k) ==
    [id |-> <<"uuid", call, batch, k>>, text |-> ln.text, source |-> ln.url,
     chunk_index |-> ln.chunk_index, timestamp |-> ts]

\* one element of `points` in upsert_batch
MakePoint(ln, ts, call, batch, k) ==
    [id |-> PointId(ln.url, ln.chunk_index, ln.text), text |-> ln.text,
     source |-> ln.url, chunk_index |-> ln.chunk_index, timestamp |-> ts]

\* the points upsert_batch builds from the buffered records
Points(rn) ==
    [k \in DOMAIN rn.texts |->
        MakePoint(rn.texts[k], rn.ts, rn.call, Len(rn.upserts) + 1, k)]

Upsert_insert(st, pts) == st \cup {pts[k] : k \in DOMAIN pts}

\* qdrant_client.upsert: insert or replace by id, in the order of the list
Upsert(st, pts) ==
    LET ids == {pts[k].id : k \in DOMAIN pts}
        last(id) == pts[CHOOSE k \in DOMAIN pts :
                          /\ pts[k].id = id
                          /\ \A m \in DOMAIN pts : pts[m].id = id => m <= k]
    IN {q \in st : q.id \notin ids} \cup {last(id) : id \in ids}

LimitReached_after(total, limit) == limit.set /\ total > limit.n

\* `limit is not None and total >= limit`
LimitReached(total, limit) == limit.set /\ total >= limit.n

IdleRun ==
    [pc |-> "idle", dataset |-> <<>>, batch_size |-> 1, limit |-> NoLimit,
     ts |-> 0, call |-> 0, pos |-> 0, texts |-> <<>>, total |-> 0,
     result |-> [ok |-> TRUE, reason |-> "", indexed_chunks |-> 0],
     upserts |-> <<>>]

Slots == {1, 2}

IndexIdle ==
    /\ store = {}
    /\ run = [r \in Slots |-> IdleRun]
    /\ runsStarted = 0
    /\ upserted = {}

\* the call index_dataset(path, ..., batch_size, limit): total = 0, ts = now
StartRun(r, ds, b, lim) ==
    /\ run[r].pc \in {"idle", "done"}
    /\ runsStarted' = runsStarted + 1
    /\ run' = [run EXCEPT ![r] =
                 [IdleRun EXCEPT !.pc = "loop", !.dataset = ds, !.batch_size = b,
                                 !.limit = lim, !.ts = runsStarted',
                                 !.call = runsStarted']]
    /\ UNCHANGED <<store, upserted>>
    /\ UNCHANGED otherThanIndex

\* files of any lines; the record on line i is chunk i of one document
Files ==
    UNION {[1..n -> {"blank", "comment", "invalid", "nonobject", "short", "record"}] :
             n \in 0..MaxLines}

FileLine(kind, i) ==
    CASE kind = "blank" -> BlankLine
      [] kind = "comment" -> CommentLine
      [] kind = "invalid" -> InvalidJson
      [] kind = "nonobject" -> NonObject
      [] kind = "short" -> Record("u1", i - 1, "short")
      [] OTHER -> Record("u1", i - 1, "t1")

Limits == {NoLimit, Limit(-1)} \cup {Limit(n) : n \in 0..MaxLimit}

CallIndexDataset(r) ==
    /\ runsStarted = 0
    /\ \E f \in Files, b \in 1..MaxBatch, lim \in Limits :
          StartRun(r, [i \in DOMAIN f |-> FileLine(f[i], i)], b, lim)

\* files as the Dataset Preparer writes them, of two chunks whose text may
\* have changed from one run to the next
Chunks == {Record("u1", 0, "t1"), Record("u1", 0, "t2"), Record("u1", 1, "t1")}
ChunkFiles == UNION {[1..n -> Chunks] : n \in 1..2}

CallReindex(r) ==
    /\ runsStarted < MaxRuns
    /\ \E f \in ChunkFiles, b \in 1..MaxBatch : StartRun(r, f, b, NoLimit)

CurLine(rn) == rn.dataset[rn.pos + 1]

\* the outer `except Exception`: ok False, the reason, the total so far
OnException_counted(rn, reason) ==
    [rn EXCEPT !.pc = "done",
               !.result = [ok |-> FALSE, reason |-> reason,
                           indexed_chunks |-> rn.total + Len(rn.texts)]]

OnException(rn, reason) ==
    [rn EXCEPT !.pc = "done",
               !.result = [ok |-> FALSE, reason |-> reason,
                           indexed_chunks |-> rn.total]]

\* a blank line, a comment, invalid JSON or a record with a short text: continue
IndexSkipLine(r) ==
    /\ run[r].pc = "loop"
    /\ run[r].pos < Len(run[r].dataset)
    /\ \/ SkippedLine(CurLine(run[r]))
       \/ CurLine(run[r]).kind = "record" /\ TooShort(CurLine(run[r]))
    /\ run' = [run EXCEPT ![r].pos = @ + 1]
    /\ UNCHANGED <<store, runsStarted, upserted>>
    /\ UNCHANGED otherThanIndex

\* valid JSON that is no object: rec.get raises AttributeError
IndexNonObject(r) ==
    /\ run[r].pc = "loop"
    /\ run[r].pos < Len(run[r].dataset)
    /\ CurLine(run[r]).kind = "nonobject"
    /\ run' = [run EXCEPT ![r] = OnException([@ EXCEPT !.pos = @ + 1], "AttributeError")]
    /\ UNCHANGED <<store, runsStarted, upserted>>
    /\ UNCHANGED otherThanIndex

\* a record is buffered and the batch is not full yet
IndexBufferRecord(r) ==
    /\ run[r].pc = "loop"
    /\ run[r].pos < Len(run[r].dataset)
    /\ ValidRecord(CurLine(run[r]))
    /\ Len(run[r].texts) + 1 < run[r].batch_size
    /\ run' = [run EXCEPT ![r].pos = @ + 1,
                          ![r].texts = Append(@, CurLine(run[r]))]
    /\ UNCHANGED <<store, runsStarted, upserted>>
    /\ UNCHANGED otherThanIndex

\* the log of what a successful upsert of rn's buffer writes
Written(rn) ==
    {<<rn.call, Len(rn.upserts) + 1, k, Points(rn)[k]>> : k \in DOMAIN rn.texts}

\* upsert_batch succeeded: total grows, the buffer is emptied
AfterUpsert(rn) ==
    [rn EXCEPT !.total = @ + Len(rn.texts),
               !.texts = <<>>,
               !.upserts = Append(@, [size |-> Len(rn.texts), ok |-> TRUE])]

\* upsert_batch raised: the outer except ends the run
AfterFailedUpsert(rn) ==
    OnException([rn EXCEPT !.upserts = Append(@, [size |-> Len(rn.texts), ok |-> FALSE])],
                "store")

\* a record fills the batch: upsert, then the limit test
IndexBatch(r) ==
    /\ run[r].pc = "loop"
    /\ run[r].pos < Len(run[r].dataset)
    /\ ValidRecord(CurLine(run[r]))
    /\ Len(run[r].texts) + 1 >= run[r].batch_size
    /\ LET rn == [run[r] EXCEPT !.pos = @ + 1, !.texts = Append(@, CurLine(run[r]))]
           done == AfterUpsert(rn)
       IN /\ store' = Upsert(store, Points(rn))
          /\ upserted' = upserted \cup Written(rn)
          /\ run' = [run EXCEPT ![r] =
                       IF LimitReached(done.total, done.limit)
                       THEN [done EXCEPT !.pc = "flush"]
                       ELSE done]
    /\ UNCHANGED runsStarted
    /\ UNCHANGED otherThanIndex

\* a record fills the batch and the upsert raises
IndexBatchFails(r) ==
    /\ run[r].pc = "loop"
    /\ run[r].pos < Len(run[r].dataset)
    /\ ValidRecord(CurLine(run[r]))
    /\ Len(run[r].texts) + 1 >= run[r].batch_size
    /\ LET rn == [run[r] EXCEPT !.pos = @ + 1, !.texts = Append(@, CurLine(run[r]))]
       IN run' = [run EXCEPT ![r] = AfterFailedUpsert(rn)]
    /\ UNCHANGED <<store, runsStarted, upserted>>
    /\ UNCHANGED otherThanIndex

\* the file is read to its end
IndexEof(r) ==
    /\ run[r].pc = "loop"
    /\ run[r].pos = Len(run[r].dataset)
    /\ run' = [run EXCEPT ![r].pc = "flush"]
    /\ UNCHANGED <<store, runsStarted, upserted>>
    /\ UNCHANGED otherThanIndex

Returned(rn) ==
    [rn EXCEPT !.pc = "done",
               !.result = [ok |-> TRUE, reason |-> "", indexed_chunks |-> rn.total]]

\* flush remainder: upsert_batch returns 0 on an empty buffer
IndexFlush(r) ==
    /\ run[r].pc = "flush"
    /\ IF run[r].texts = <<>>
       THEN /\ run' = [run EXCEPT ![r] = Returned(@)]
            /\ UNCHANGED <<store, upserted>>
       ELSE /\ store' = Upsert(store, Points(run[r]))
            /\ upserted' = upserted \cup Written(run[r])
            /\ run' = [run EXCEPT ![r] = Returned(AfterUpsert(@))]
    /\ UNCHANGED runsStarted
    /\ UNCHANGED otherThanIndex

\* the flush of the remainder raises
IndexFlushFails(r) ==
    /\ run[r].pc = "flush"
    /\ run[r].texts # <<>>
    /\ run' = [run EXCEPT ![r] = AfterFailedUpsert(@)]
    /\ UNCHANGED <<store, runsStarted, upserted>>
    /\ UNCHANGED otherThanIndex

\* one call of index_dataset on a file of any lines
IndexNext ==
    \/ CallIndexDataset(1)
    \/ IndexSkipLine(1)
    \/ IndexNonObject(1)
    \/ IndexBufferRecord(1)
    \/ IndexBatch(1)
    \/ IndexBatchFails(1)
    \/ IndexEof(1)
    \/ IndexFlush(1)
    \/ IndexFlushFails(1)

\* repeated and interleaved calls on files of chunk records
ReindexNext ==
    \E r \in Slots :
        \/ CallReindex(r)
        \/ IndexBufferRecord(r)
        \/ IndexBatch(r)
        \/ IndexBatchFails(r)
        \/ IndexEof(r)
        \/ IndexFlush(r)
        \/ IndexFlushFails(r)

(***************************************************************************)
(* arabic_chatbot_final: the chat handler.  A message is what the handler  *)
(* reads from its text: the keywords detect_intent looks for, the day and  *)
(* the time extract_booking_slots finds, the token the cancel pattern      *)
(* captures and the date expression _parse_ar_date sees.                   *)
(***************************************************************************)
SessionIds == {"s1"}
\* ---- datetime -----------------------------------------------------------
Date(y, m, d) == [year |-> y, month |-> m, day |-> d]

IsLeap(y) == (y % 4 = 0 /\ y % 100 # 0) \/ y % 400 = 0

DaysInMonth(y, m) ==
    IF m = 2 THEN (IF IsLeap(y) THEN 29 ELSE 28)
    ELSE IF m \in {4, 6, 9, 11} THEN 30 ELSE 31

\* date + timedelta(days=1)
NextDay(dt) ==
    IF dt.day < DaysInMonth(dt.year, dt.month) THEN Date(dt.year, dt.month, dt.day + 1)
    ELSE IF dt.month < 12 THEN Date(dt.year, dt.month + 1, 1)
    ELSE Date(dt.year + 1, 1, 1)

\* date - timedelta(days=1)
PrevDay(dt) ==
    IF dt.day > 1 THEN Date(dt.year, dt.month, dt.day - 1)
    ELSE IF dt.month > 1 THEN Date(dt.year, dt.month - 1, DaysInMonth(dt.year, dt.month - 1))
    ELSE Date(dt.year - 1, 12, 31)

\* a clock reading for the calls that never read the clock
Epoch == Date(1970, 1, 1)

\* the values of datetime.now().date() in the model
Nows == {Date(2025, 2, 28), Date(2025, 12, 31)}
TicketIds == 1..MaxTickets

NoToken == <<>>
Token(n) == <<n>>
Tokens == {NoToken} \cup {Token(n) : n \in TicketIds} \cup {Token(MaxTickets + 1)}

\* the date expression of a text: a relative word (tomorrow, yesterday and
\* their variants) and the first numeric pattern, YYYY-MM-DD or A/B/C
NoDateText == [rel |-> "", form |-> "none", n |-> <<>>]
RelText(r) == [rel |-> r, form |-> "none", n |-> <<>>]
Ymd(y, mo, d) == [rel |-> "", form |-> "ymd", n |-> <<y, mo, d>>]
Abc(a, b, c) == [rel |-> "", form |-> "abc", n |-> <<a, b, c>>]

\* the date expressions of the texts sent to /chat
DateTexts ==
    {NoDateText, RelText("tomorrow"), Ymd(2025, 2, 12), Ymd(2025, 12, 31), Ymd(2025, 2, 30)}

Text(w, d, t, tok, dt) ==
    [words |-> w, day |-> d, time |-> t, token |-> tok, date |-> dt]

SlotTexts == {<<"", "">>, <<"Fri", "">>, <<"", "8">>, <<"Fri", "8">>}

\* the texts sent to /chat
Messages ==
    {Text(w, "", "", NoToken, NoDateText) :
        w \in {{"greet"}, {"help"}, {"greet", "book"}, {"help", "cancel"}}}
    \cup {Text({"greet"}, "Fri", "8", NoToken, NoDateText)}
    \cup {Text(w, s[1], s[2], NoToken, NoDateText) :
            w \in {{"book"}, {"book", "hour"}}, s \in SlotTexts}
    \cup {Text({"cancel"}, "", "", tok, NoDateText) : tok \in Tokens}
    \cup {Text({}, s[1], s[2], NoToken, NoDateText) : s \in SlotTexts \ {<<"", "">>}}
    \cup {Text({}, "", "", tok, NoDateText) : tok \in Tokens \ {NoToken}}
    \cup {Text(w, "", IF dt.form # "none" THEN "8" ELSE "", NoToken, dt) :
            w \in {{}, {"match"}, {"match", "today"}, {"today"}}, dt \in DateTexts}

extract_booking_slots(msg) == [day |-> msg.day, time |-> msg.time]

detect_intent(msg) ==
    IF "greet" \in msg.words THEN [intent |-> "smalltalk.greet", ticket_id |-> NoToken]
    ELSE IF "help" \in msg.words THEN [intent |-> "smalltalk.help", ticket_id |-> NoToken]
    ELSE IF "match" \in msg.words /\ "today" \in msg.words
        THEN [intent |-> "fixtures.today", ticket_id |-> NoToken]
    ELSE IF "book" \in msg.words
        THEN IF "hour" \in msg.words \/ msg.time # "" \/ msg.day # ""
             THEN [intent |-> "booking.fill", ticket_id |-> NoToken]
             ELSE [intent |-> "booking.ask", ticket_id |-> NoToken]
    ELSE IF "cancel" \in msg.words
        THEN IF msg.token # NoToken
             THEN [intent |-> "cancel.fill", ticket_id |-> msg.token]
             ELSE [intent |-> "cancel.ask", ticket_id |-> NoToken]
    ELSE [intent |-> "general.query", ticket_id |-> NoToken]

\* ---- memory.py: SessionMemory ------------------------------------------
NoSlots == [day |-> "", time |-> ""]
NewSession == [turns |-> <<>>, slots |-> NoSlots, expectation |-> "None"]

_ensure(ss, sid) ==
    IF sid \in DOMAIN ss THEN ss
    ELSE [s \in DOMAIN ss \cup {sid} |-> IF s = sid THEN NewSession ELSE ss[s]]

append_user(ss, sid) ==
    [_ensure(ss, sid) EXCEPT ![sid].turns = Append(@, "user")]

append_bot(ss, sid) ==
    [_ensure(ss, sid) EXCEPT ![sid].turns = Append(@, "bot")]

update_slots(ss, sid, slots) ==
    [_ensure(ss, sid) EXCEPT
        ![sid].slots = [day |-> IF slots.day # "" THEN slots.day ELSE @.day,
                        time |-> IF slots.time # "" THEN slots.time ELSE @.time]]

get_slots(ss, sid) == _ensure(ss, sid)[sid].slots

set_expectation(ss, sid, expectation) ==
    [_ensure(ss, sid) EXCEPT ![sid].expectation = expectation]

expectation_is(ss, sid, expectation) ==
    _ensure(ss, sid)[sid].expectation = expectation

\* the slots and the expectation left as they are
clear_session_kept(ss, sid) == ss

clear_session(ss, sid) ==
    IF sid \in DOMAIN ss
    THEN [ss EXCEPT ![sid].slots = NoSlots, ![sid].expectation = "None"]
    ELSE ss

\* ---- ticketapi.py ------------------------------------------------------
\* book_ticket: the n-th ticket issued has id n
book_ticket(db, n, day, time) ==
    db \cup {[ticket_id |-> n, day |-> day, time |-> time]}

TicketIn(db, tok) == tok # NoToken /\ \E t \in db : t.ticket_id = tok[1]

cancel_ticket(db, tok) ==
    IF TicketIn(db, tok) THEN {t \in db : t.ticket_id # tok[1]} ELSE db

\* ---- app.py: match lookup ----------------------------------------------
\* a key of MATCHES_BY_DATE: <<>> is the empty string, <<y, m, d>> the
\* zero-padded text YYYY-MM-DD
EmptyKey == <<>>
isoformat(dt) == <<dt.year, dt.month, dt.day>>
DateKeys == {EmptyKey, isoformat(Date(2025, 2, 12)), isoformat(Date(2025, 12, 31))}

\* str < str on the keys
KeyLess(a, b) ==
    \/ a = EmptyKey /\ b # EmptyKey
    \/ /\ a # EmptyKey
       /\ b # EmptyKey
       /\ \/ a[1] < b[1]
          \/ a[1] = b[1] /\ a[2] < b[2]
          \/ a[1] = b[1] /\ a[2] = b[2] /\ a[3] < b[3]

\* nxt[:10], prv[:10]
ListCap == 10
Min(a, b) == IF a <= b THEN a ELSE b

\* the dict load_matches_by_date returns: date key -> number of match records
NoMatches == [k \in {} |-> 0]
Corpora(counts) == UNION {[K -> counts] : K \in SUBSET DateKeys}

NoDate == [tag |-> "None"]
DateOf(d) == [tag |-> "date", day |-> d]
DateValueError == [tag |-> "ValueError"]

\* datetime(y, mo, d).date()
datetime(y, mo, d) ==
    IF 1 <= y /\ y <= 9999 /\ 1 <= mo /\ mo <= 12 /\ 1 <= d /\ d <= DaysInMonth(y, mo)
    THEN DateOf(Date(y, mo, d))
    ELSE DateValueError

\* the A/B/C pattern read day-first whatever A is
_parse_ar_date_dayfirst(msg, now) ==
    IF "today" \in msg.words THEN DateOf(now)
    ELSE IF msg.date.rel = "tomorrow" THEN DateOf(NextDay(now))
    ELSE IF msg.date.rel = "yesterday" THEN DateOf(PrevDay(now))
    ELSE IF msg.date.form = "ymd"
        THEN datetime(msg.date.n[1], msg.date.n[2], msg.date.n[3])
    ELSE IF msg.date.form = "abc"
        THEN datetime(IF msg.date.n[3] < 100 THEN msg.date.n[3] + 2000 ELSE msg.date.n[3],
                      msg.date.n[2], msg.date.n[1])
    ELSE NoDate

_parse_ar_date(msg, now) ==
    IF "today" \in msg.words THEN DateOf(now)
    ELSE IF msg.date.rel = "tomorrow" THEN DateOf(NextDay(now))
    ELSE IF msg.date.rel = "yesterday" THEN DateOf(PrevDay(now))
    ELSE IF msg.date.form = "ymd"
        THEN datetime(msg.date.n[1], msg.date.n[2], msg.date.n[3])
    ELSE IF msg.date.form = "abc"
        THEN LET a == msg.date.n[1]
                 b == msg.date.n[2]
                 c == IF msg.date.n[3] < 100 THEN msg.date.n[3] + 2000 ELSE msg.date.n[3]
             IN IF a > 12 THEN datetime(c, b, a) ELSE datetime(c, a, b)
    ELSE NoDate

\* the returned str: its wording, the day it reports and the matches it lists
Answer(text, key, listed) == [text |-> text, day |-> key, listed |-> listed]
Raised(exc) == Answer(exc, EmptyKey, 0)

KeyMin_last(S) == CHOOSE k \in S : \A m \in S : m = k \/ KeyLess(m, k)

KeyMin(S) == CHOOSE k \in S : \A m \in S : m = k \/ KeyLess(k, m)
KeyMax(S) == CHOOSE k \in S : \A m \in S : m = k \/ KeyLess(m, k)

find_matches_message(corpus, msg, now) ==
    LET target_date == _parse_ar_date(msg, now) IN
    IF target_date = DateValueError THEN Raised("ValueError")
    ELSE IF target_date = NoDate THEN Answer("specify the date", EmptyKey, 0)
    ELSE
        LET key == isoformat(target_date.day)
            future_dates == {d \in DOMAIN corpus : KeyLess(key, d)}
            past_dates == {d \in DOMAIN corpus : KeyLess(d, key)}
        IN IF key \in DOMAIN corpus THEN Answer("matches of the day", key, corpus[key])
           ELSE IF future_dates # {}
               THEN LET next_day == KeyMin(future_dates)
                    IN Answer("nearest next day", next_day, Min(corpus[next_day], ListCap))
           ELSE IF past_dates # {}
               THEN LET prev_day == KeyMax(past_dates)
                    IN Answer("last past day", prev_day, Min(corpus[prev_day], ListCap))
           ELSE Answer("dataset is empty", EmptyKey, 0)

\* the truth value of a str in `if matches_ans:`
Truthy(s) == s # ""

\* ---- app.py: chat -------------------------------------------------------
NoAnswer == Answer("", EmptyKey, 0)

\* what one pass through the handler's try block leaves behind
Out(ss, db, n, branch, response, action, calls, ans) ==
    [sessions |-> ss, db |-> db, issued |-> n, branch |-> branch,
     response |-> response, action |-> action, calls |-> calls, matches_ans |-> ans]

Booked(ss, sid, db, n, slots, branch) ==
    Out(clear_session(ss, sid), book_ticket(db, n + 1, slots.day, slots.time), n + 1,
        branch, "booked", "booked", <<"book_ticket">>, NoAnswer)

FillSlots(ss, sid, db, n, msg, branch) ==
    LET s1 == update_slots(ss, sid, extract_booking_slots(msg))
        slots_now == get_slots(s1, sid)
    IN IF slots_now.day # "" /\ slots_now.time # ""
       THEN Booked(s1, sid, db, n, slots_now, branch)
       ELSE Out(s1, db, n, branch, "clarify day and time", "None", <<>>, NoAnswer)

\* user_text.strip() used as a ticket id: an id only when the text is nothing else
TextAsId(msg) ==
    IF msg.words = {} /\ msg.day = "" /\ msg.time = "" /\ msg.date = NoDateText
    THEN msg.token ELSE NoToken

RagResults == {<<>>, <<"doc">>}
Generations == {"answer", "raises"}

Lookup(ss, db, n, msg, now, docs, gen) ==
    LET matches_ans == find_matches_message(MATCHES_BY_DATE, msg, now) IN
    IF matches_ans.text = "ValueError"
    THEN Out(ss, db, n, "matches", "error", "None", <<"find_matches_message">>, matches_ans)
    ELSE IF Truthy(matches_ans.text)
    THEN Out(ss, db, n, "matches", matches_ans.text, "None",
             <<"find_matches_message">>, matches_ans)
    ELSE IF docs = <<>>
    THEN Out(ss, db, n, "matches", "no information", "None",
             <<"find_matches_message", "search_rag">>, matches_ans)
    ELSE Out(ss, db, n, "matches",
             IF gen = "raises" THEN "no information" ELSE "generated", "None",
             <<"find_matches_message", "search_rag", "generate_answer">>, matches_ans)

\* the branch of the handler's if/elif chain that a message takes
Branch(ss, sid, msg) ==
    LET intent == detect_intent(msg).intent IN
    IF intent \in {"booking.ask", "booking.fill", "cancel.ask", "cancel.fill"} THEN intent
    ELSE IF expectation_is(ss, sid, "booking") THEN "expect.booking"
    ELSE IF expectation_is(ss, sid, "cancel") THEN "expect.cancel"
    ELSE IF intent \in {"smalltalk.greet", "smalltalk.help"} THEN intent
    ELSE "matches"

\* the bodies of the if/elif chain; d is what detect_intent returned
Body(branch, d, ss, sid, db, n, msg, now, docs, gen) ==
    IF branch = "booking.ask" THEN
        LET slots == get_slots(ss, sid) IN
        IF slots.day = "" \/ slots.time = ""
        THEN Out(set_expectation(ss, sid, "booking"), db, n, branch,
                 "ask day and time", "None", <<>>, NoAnswer)
        ELSE Booked(ss, sid, db, n, slots, branch)
    ELSE IF branch = "booking.fill" THEN FillSlots(ss, sid, db, n, msg, branch)
    ELSE IF branch = "cancel.ask" THEN
        Out(set_expectation(ss, sid, "cancel"), db, n, branch,
            "ask ticket id", "None", <<>>, NoAnswer)
    ELSE IF branch = "cancel.fill" THEN
        IF TicketIn(db, d.ticket_id)
        THEN Out(ss, cancel_ticket(db, d.ticket_id), n, branch,
                 "cancelled", "cancelled", <<"cancel_ticket">>, NoAnswer)
        ELSE Out(ss, db, n, branch, "ticket not found", "None",
                 <<"cancel_ticket">>, NoAnswer)
    ELSE IF branch = "expect.booking" THEN FillSlots(ss, sid, db, n, msg, branch)
    ELSE IF branch = "expect.cancel" THEN
        IF TicketIn(db, TextAsId(msg))
        THEN Out(clear_session(ss, sid), cancel_ticket(db, TextAsId(msg)), n,
                 branch, "cancelled", "cancelled", <<"cancel_ticket">>, NoAnswer)
        ELSE Out(ss, db, n, branch, "ticket not found", "None",
                 <<"cancel_ticket">>, NoAnswer)
    ELSE IF branch = "smalltalk.greet" THEN
        Out(ss, db, n, branch, "greeting", "None", <<>>, NoAnswer)
    ELSE IF branch = "smalltalk.help" THEN
        Out(ss, db, n, branch, "help", "None", <<>>, NoAnswer)
    ELSE Lookup(ss, db, n, msg, now, docs, gen)

Route(ss, sid, db, n, msg, now, docs, gen) ==
    Body(Branch(ss, sid, msg), detect_intent(msg), ss, sid, db, n, msg, now, docs, gen)

NoReply ==
    [intent |-> "", branch |-> "", response |-> "", action |-> "None",
     calls |-> <<>>, matches_ans |-> NoAnswer]

\* one POST /chat
chat(sid, msg, now, docs, gen) ==
    \E o \in {Route(append_user(sessions, sid), sid, _db, issued, msg, now, docs, gen)} :
        /\ Len(o.sessions[sid].turns) < 2 * MaxTurns
        /\ o.issued <= MaxTickets
        /\ sessions' = append_bot(o.sessions, sid)
        /\ _db' = o.db
        /\ issued' = o.issued
        /\ lastTurn' = [intent |-> detect_intent(msg).intent, branch |-> o.branch,
                        response |-> o.response, action |-> o.action,
                        calls |-> o.calls, matches_ans |-> o.matches_ans]
        /\ UNCHANGED MATCHES_BY_DATE
        /\ UNCHANGED otherThanChat

BranchOf(sid, msg) == Branch(sessions, sid, msg)

ChatBooking ==
    \E sid \in SessionIds, msg \in Messages :
        /\ BranchOf(sid, msg) \in {"booking.ask", "booking.fill"}
        /\ chat(sid, msg, Epoch, <<>>, "answer")

ChatCancel ==
    \E sid \in SessionIds, msg \in Messages :
        /\ BranchOf(sid, msg) \in {"cancel.ask", "cancel.fill"}
        /\ chat(sid, msg, Epoch, <<>>, "answer")

ChatContinuation ==
    \E sid \in SessionIds, msg \in Messages :
        /\ BranchOf(sid, msg) \in {"expect.booking", "expect.cancel"}
        /\ chat(sid, msg, Epoch, <<>>, "answer")

ChatSmalltalk ==
    \E sid \in SessionIds, msg \in Messages :
        /\ BranchOf(sid, msg) \in {"smalltalk.greet", "smalltalk.help"}
        /\ chat(sid, msg, Epoch, <<>>, "answer")

\* what search_rag and generate_answer give the turn: read only if they are called
Retrieved(msg, now) ==
    IF Truthy(find_matches_message(MATCHES_BY_DATE, msg, now).text)
    THEN {<<>>} ELSE RagResults

Generated(msg, now) ==
    IF Truthy(find_matches_message(MATCHES_BY_DATE, msg, now).text)
    THEN {"answer"} ELSE Generations

ChatMatches ==
    \E sid \in SessionIds, msg \in Messages :
        /\ BranchOf(sid, msg) = "matches"
        /\ \E now \in Nows :
              \E docs \in Retrieved(msg, now), gen \in Generated(msg, now) :
                  chat(sid, msg, now, docs, gen)

ChatNext ==
    \/ ChatBooking
    \/ ChatCancel
    \/ ChatContinuation
    \/ ChatSmalltalk
    \/ ChatMatches

\* the module globals after import, before MATCHES_BY_DATE is loaded
ChatFresh ==
    /\ sessions = [s \in {} |-> NewSession]
    /\ _db = {}
    /\ issued = 0
    /\ lastTurn = NoReply

ChatIdle == ChatFresh /\ MATCHES_BY_DATE = NoMatches

\* load_matches_by_date on a file of match records
LoadMatches == ChatFresh /\ MATCHES_BY_DATE \in Corpora({1})

\* ---- app.py: matches_search ---------------------------------------------
\* the numbers of the numeric date patterns
Nums == {1, 2, 12, 13, 31}

\* the date expressions of the queries: none, relative, YYYY-MM-DD, A/B/C with
\* a two-digit and a four-digit year, and a relative word next to a date
QueryDates ==
    {NoDateText, RelText("tomorrow"), RelText("yesterday")}
        \cup {Ymd(2025, mo, d) : mo \in Nums, d \in Nums}
        \cup {Abc(a, b, c) : a \in Nums, b \in Nums, c \in {25, 2025}}
        \cup {[rel |-> "tomorrow", form |-> "ymd", n |-> <<2025, 2, 12>>]}
        \cup {[rel |-> "yesterday", form |-> "abc", n |-> <<13, 1, 2025>>]}

Queries ==
    {Text(w, "", IF dt.form # "none" THEN "8" ELSE "", NoToken, dt) :
        w \in {{}, {"today"}}, dt \in QueryDates}

NoSearch(q, now, corpus) ==
    [q |-> q, now |-> now, corpus |-> corpus, result |-> NotApplied, status |-> 0]

LookupIdle == fmm = NoSearch(Text({}, "", "", NoToken, NoDateText), Epoch, NoMatches)

\* a query, a clock reading and a loaded corpus with short and long days
LookupInputs ==
    \E q \in Queries, now \in Nows, corpus \in Corpora({1, ListCap + 1}) :
        fmm = NoSearch(q, now, corpus)

\* POST /matches/search: an exception of the lookup leaves the handler (HTTP 500)
matches_search ==
    /\ fmm.result = NotApplied
    /\ \E ans \in {find_matches_message(fmm.corpus, fmm.q, fmm.now)} :
          fmm' = [fmm EXCEPT !.result = ans,
                             !.status = IF ans.text = "ValueError" THEN 500 ELSE 200]
    /\ UNCHANGED otherThanLookup

LookupNext == matches_search

(***************************************************************************)
(* fetch_yallakora_all_matches.py: the date-range fetcher, run repeatedly  *)
(* on one output file and one seen file.  A match URL is the text urljoin  *)
(* returns: the match it names and the whitespace the href ended in, which *)
(* urljoin keeps.                                                          *)
(***************************************************************************)
MatchUrl(k, ws) == [match |-> k, trailing |-> ws]
MatchUrls == {MatchUrl(1, ""), MatchUrl(2, ""), MatchUrl(1, " ")}

\* str.strip() on a line of the seen file
strip(u) == [u EXCEPT !.trailing = ""]

\* load_seen: the stripped lines of the file
load_seen(lines) == {strip(lines[i]) : i \in DOMAIN lines}

\* append_seen: url + "\n" at the end of the file
append_seen(lines, url) == Append(lines, url)

\* list(discover_matches_for_date(...))[: max_per_day]
Discovered ==
    UNION {Orders(S) : S \in {T \in SUBSET MatchUrls : Cardinality(T) <= 2}}

DateRanges == {1, 2}

IdleFetcher == [pc |-> "idle", seen |-> {}, days |-> 0, links |-> <<>>]

FetchIdle ==
    /\ outFile = <<>>
    /\ seenFile = <<>>
    /\ fr = IdleFetcher
    /\ fruns = 0
    /\ kc = [built |-> 0, saved |-> 0]
    /\ extracted = <<>>
    /\ written = {}

\* main up to the loop over the dates
FetcherMain ==
    /\ fr.pc \in {"idle", "done"}
    /\ fruns < MaxFetchRuns
    /\ \E days \in DateRanges :
          fr' = [pc |-> "dates", seen |-> load_seen(seenFile), days |-> days, links |-> <<>>]
    /\ fruns' = fruns + 1
    /\ UNCHANGED <<outFile, seenFile, kc, extracted, written>>
    /\ UNCHANGED otherThanFetch

\* the next date of the range: its match links
FetcherDiscover ==
    /\ fr.pc = "dates"
    /\ fr.days > 0
    /\ \E links \in Discovered :
          fr' = [fr EXCEPT !.pc = "links", !.days = @ - 1, !.links = links]
    /\ UNCHANGED <<outFile, seenFile, fruns, kc, extracted, written>>
    /\ UNCHANGED otherThanFetch

\* `if url in seen: continue`
FetcherSkipSeen ==
    /\ fr.pc = "links"
    /\ fr.links # <<>>
    /\ Head(fr.links) \in fr.seen
    /\ fr' = [fr EXCEPT !.links = Tail(@)]
    /\ UNCHANGED <<outFile, seenFile, fruns, kc, extracted, written>>
    /\ UNCHANGED otherThanFetch

PageRecord(url, by, at) == [url |-> url, by |-> by, at |-> at]

\* extract_page on a new url, the record written if there is one, the url
\* added to seen and appended to the seen file
FetcherExtract ==
    /\ fr.pc = "links"
    /\ fr.links # <<>>
    /\ Head(fr.links) \notin fr.seen
    /\ \E rec \in BOOLEAN :
          LET url == Head(fr.links)
              record == PageRecord(url, "fetcher", Cardinality(written))
          IN /\ extracted' = Append(extracted, url)
             /\ outFile' = IF rec THEN Append(outFile, record) ELSE outFile
             /\ written' = IF rec THEN written \cup {record} ELSE written
             /\ fr' = [fr EXCEPT !.seen = @ \cup {url}, !.links = Tail(@)]
             /\ seenFile' = append_seen(seenFile, url)
    /\ UNCHANGED <<fruns, kc>>
    /\ UNCHANGED otherThanFetch

\* the links of the date are done
FetcherDayDone ==
    /\ fr.pc = "links"
    /\ fr.links = <<>>
    /\ fr' = [fr EXCEPT !.pc = "dates"]
    /\ UNCHANGED <<outFile, seenFile, fruns, kc, extracted, written>>
    /\ UNCHANGED otherThanFetch

\* the range is done: the output file is closed
FetcherDone ==
    /\ fr.pc = "dates"
    /\ fr.days = 0
    /\ fr' = [fr EXCEPT !.pc = "done"]
    /\ UNCHANGED <<outFile, seenFile, fruns, kc, extracted, written>>
    /\ UNCHANGED otherThanFetch

\* KooraCrawler.__init__ between two fetcher runs: open(jsonl_path, "w").close()
NewKooraCrawler ==
    /\ fr.pc \in {"idle", "done"}
    /\ kc.built < MaxCrawlers
    /\ kc' = [built |-> kc.built + 1, saved |-> 0]
    /\ outFile' = <<>>
    /\ UNCHANGED <<seenFile, fr, fruns, extracted, written>>
    /\ UNCHANGED otherThanFetch

\* save_article of that crawler: one record appended (one per crawler here)
CrawlerSaveArticle ==
    /\ fr.pc \in {"idle", "done"}
    /\ kc.built > 0
    /\ kc.saved = 0
    /\ \E url \in MatchUrls :
          LET record == PageRecord(url, "crawler", Cardinality(written))
          IN /\ outFile' = Append(outFile, record)
             /\ written' = written \cup {record}
    /\ kc' = [kc EXCEPT !.saved = 1]
    /\ UNCHANGED <<seenFile, fr, fruns, extracted>>
    /\ UNCHANGED otherThanFetch

FetcherNext ==
    \/ FetcherMain
    \/ FetcherDiscover
    \/ FetcherSkipSeen
    \/ FetcherExtract
    \/ FetcherDayDone
    \/ FetcherDone

\* fetcher runs and crawler runs on one data directory, one after the other
PagesNext ==
    \/ FetcherMain
    \/ FetcherDiscover
    \/ FetcherSkipSeen
    \/ FetcherExtract
    \/ FetcherDayDone
    \/ FetcherDone
    \/ NewKooraCrawler
    \/ CrawlerSaveArticle

(***************************************************************************)
(* rag.py: chunk_text.  A string is the sequence of its characters.        *)
(***************************************************************************)
Whitespace == {" ", "\t"}
Chars == {"a", "b"} \cup Whitespace

Texts == UNION {[1..n -> Chars] : n \in 0..MaxTextChars}

\* the length of the word a string starts with
WordEnd(text) ==
    CHOOSE n \in 1..Len(text) :
        /\ \A i \in 1..n : text[i] \notin Whitespace
        /\ n = Len(text) \/ text[n + 1] \in Whitespace

\* str.split(): the maximal runs of characters that are not whitespace
RECURSIVE split(_)
split(text) ==
    IF text = <<>> THEN <<>>
    ELSE IF Head(text) \in Whitespace THEN split(Tail(text))
    ELSE <<SubSeq(text, 1, WordEnd(text))>>
             \o split(SubSeq(text, WordEnd(text) + 1, Len(text)))

\* sep.join(strs)
RECURSIVE join(_, _)
join(sep, strs) ==
    IF strs = <<>> THEN <<>>
    ELSE IF Len(strs) = 1 THEN strs[1]
    ELSE strs[1] \o sep \o join(sep, Tail(strs))

Space == <<" ">>

DefaultMaxChars == 800

\* `if cur_len > max_chars`
Exceeds_late(cur_len, max_chars) == cur_len > max_chars + 2
Exceeds(cur_len, max_chars) == cur_len > max_chars

\* `if cur: chunks.append(" ".join(cur))`
Remainder_dropped(cur) == <<>>
Remainder(cur) == IF cur # <<>> THEN <<join(Space, cur)>> ELSE <<>>

\* the loop over the words, then the remainder
RECURSIVE chunk_loop(_, _, _, _, _)
chunk_loop(words, max_chars, chunks, cur, cur_len) ==
    IF words = <<>> THEN chunks \o Remainder(cur)
    ELSE IF Exceeds(cur_len + Len(Head(words)) + 1, max_chars)
    THEN chunk_loop(Tail(words), max_chars,
                    Append(chunks, join(Space, Append(cur, Head(words)))), <<>>, 0)
    ELSE chunk_loop(Tail(words), max_chars, chunks,
                    Append(cur, Head(words)), cur_len + Len(Head(words)) + 1)

chunk_text(text, max_chars) == chunk_loop(split(text), max_chars, <<>>, <<>>, 0)

NoCall == [text |-> <<>>, max_chars |-> DefaultMaxChars, chunks |-> <<>>, returned |-> FALSE]

ChunkIdle == ck = NoCall

ChunkInputs ==
    \E text \in Texts, max_chars \in 1..MaxChunkChars :
        ck = [text |-> text, max_chars |-> max_chars, chunks |-> <<>>, returned |-> FALSE]

ChunkText ==
    /\ ~ck.returned
    /\ ck' = [ck EXCEPT !.chunks = chunk_text(ck.text, ck.max_chars), !.returned = TRUE]
    /\ UNCHANGED otherThanChunk

ChunkNext == ChunkText

(***************************************************************************)
(* prepare_koora_dataset.py: process.  One step per input line.  The       *)
(* trigger phrases of is_boilerplate are two words each, with the same     *)
(* first word; here the words are the letters "m", "x" and "y".            *)
(***************************************************************************)
\* normalize_ws: runs of whitespace become one space, the ends are trimmed
normalize_ws(text) == join(Space, split(text))

triggers == <<(<<"m", " ", "x">>), (<<"m", " ", "y">>)>>

\* text.count(t): the occurrences of t that do not overlap, from the left
RECURSIVE str_count(_, _)
str_count(text, t) ==
    IF Len(text) < Len(t) THEN 0
    ELSE IF SubSeq(text, 1, Len(t)) = t
    THEN 1 + str_count(SubSeq(text, Len(t) + 1, Len(text)), t)
    ELSE str_count(Tail(text), t)

\* sum(text.count(t) for t in triggers)
Repeats(text) == str_count(text, triggers[1]) + str_count(text, triggers[2])

is_boilerplate_never(text, bad_repeat_threshold) == FALSE
is_boilerplate(text, bad_repeat_threshold) == Repeats(text) >= bad_repeat_threshold

\* sha1(ch.encode("utf-8")).hexdigest()
sha1(ch) == <<"sha1", ch>>

ArticleTexts ==
    { <<"a", " ", "b", " ", "a", " ", "b">>,
      <<"a", " ", " ", "b">>,
      <<"m", " ", "x", " ", "m", " ", "y", " ", "a", " ", "b">>,
      <<"a", " ", "b", " ", "b">>,
      <<"m", " ", "x", " ", "m", " ", " ", "y">>,
      <<"a">> }

ArticleUrls == {"u1", "u2"}

\* a line of the input: one that is skipped (blank, // or not JSON), one
\* whose JSON value is no object, or an article
InputLines ==
    [kind : {"skipped", "nonobject"}, url : {""}, text : {<<>>}]
        \cup [kind : {"article"}, url : ArticleUrls, text : ArticleTexts]

InputFiles == UNION {[1..n -> InputLines] : n \in 0..MaxDocs}

ChunkSizes == {1, 2}
MinChars == {3, 8}
Thresholds == {2}

NoStats == [kept_articles |-> 0, skipped_short |-> 0, skipped_boiler |-> 0, written_chunks |-> 0]

IdlePreparer ==
    [pc |-> "idle", lines |-> <<>>, i |-> 0, chunk_size |-> DefaultMaxChars,
     min_chars |-> 0, bad_repeat_threshold |-> 0, dedupe |-> FALSE,
     seen_hashes |-> {}, out |-> <<>>, stats |-> NoStats]

PrepIdle == prep = IdlePreparer

\* process entered: the output file opened with "w"
PrepInputs ==
    \E lines \in InputFiles, chunk_size \in ChunkSizes, min_chars \in MinChars,
       bad_repeat_threshold \in Thresholds, dedupe \in BOOLEAN :
        prep = [pc |-> "lines", lines |-> lines, i |-> 0, chunk_size |-> chunk_size,
                min_chars |-> min_chars, bad_repeat_threshold |-> bad_repeat_threshold,
                dedupe |-> dedupe, seen_hashes |-> {}, out |-> <<>>, stats |-> NoStats]

\* the record written for a chunk; `line` is the input line it comes from
ChunkRecord_onebased(url, idx, ch, line) ==
    [url |-> url, chunk_index |-> idx + 1, text |-> ch, line |-> line]
ChunkRecord(url, idx, ch, line) == [url |-> url, chunk_index |-> idx, text |-> ch, line |-> line]

\* `if h in seen_hashes: continue`
IsDuplicate_never(dedupe, seen_hashes, ch) == FALSE
IsDuplicate(dedupe, seen_hashes, ch) == dedupe /\ sha1(ch) \in seen_hashes

\* `for idx, ch in enumerate(chunks)`, from chunk idx on
RECURSIVE WriteChunks(_, _, _, _, _)
WriteChunks(chunks, idx, url, line, st) ==
    IF idx >= Len(chunks) THEN st
    ELSE IF normalize_ws(chunks[idx + 1]) = <<>>
            \/ IsDuplicate(st.dedupe, st.seen_hashes, normalize_ws(chunks[idx + 1]))
    THEN WriteChunks(chunks, idx + 1, url, line, st)
    ELSE WriteChunks(chunks, idx + 1, url, line,
             [st EXCEPT
                 !.seen_hashes = IF st.dedupe
                                 THEN @ \cup {sha1(normalize_ws(chunks[idx + 1]))}
                                 ELSE @,
                 !.out = Append(@, ChunkRecord(url, idx, normalize_ws(chunks[idx + 1]), line)),
                 !.stats.written_chunks = @ + 1])

\* the body of `for line in fin` for an article
Article(st, rec, text, line) ==
    IF text = <<>> \/ Len(text) < st.min_chars
    THEN [st EXCEPT !.stats.skipped_short = @ + 1]
    ELSE IF is_boilerplate(text, st.bad_repeat_threshold)
    THEN [st EXCEPT !.stats.skipped_boiler = @ + 1]
    ELSE WriteChunks(chunk_text(text, st.chunk_size), 0, rec.url, line,
                     [st EXCEPT !.stats.kept_articles = @ + 1])

\* a line that is blank, a // comment or not JSON
ProcessSkippedLine ==
    /\ prep.pc = "lines"
    /\ prep.i < Len(prep.lines)
    /\ prep.lines[prep.i + 1].kind = "skipped"
    /\ prep' = [prep EXCEPT !.i = @ + 1]
    /\ UNCHANGED otherThanPrep

\* a line whose JSON value has no .get: AttributeError leaves process
ProcessNonObject ==
    /\ prep.pc = "lines"
    /\ prep.i < Len(prep.lines)
    /\ prep.lines[prep.i + 1].kind = "nonobject"
    /\ prep' = [prep EXCEPT !.pc = "raised"]
    /\ UNCHANGED otherThanPrep

ProcessArticle ==
    /\ prep.pc = "lines"
    /\ prep.i < Len(prep.lines)
    /\ prep.lines[prep.i + 1].kind = "article"
    /\ prep' = [Article(prep, prep.lines[prep.i + 1],
                        normalize_ws(prep.lines[prep.i + 1].text), prep.i + 1)
                    EXCEPT !.i = @ + 1]
    /\ UNCHANGED otherThanPrep

\* end of the input: the files are closed and the counters returned
ProcessReturn ==
    /\ prep.pc = "lines"
    /\ prep.i = Len(prep.lines)
    /\ prep' = [prep EXCEPT !.pc = "returned"]
    /\ UNCHANGED otherThanPrep

PrepNext ==
    \/ ProcessSkippedLine
    \/ ProcessNonObject
    \/ ProcessArticle
    \/ ProcessReturn

(***************************************************************************)
(* extract_matches.py.  A title is the sequence of its words (it is always *)
(* passed through normalize_ws first): "match" is the word every match     *)
(* title starts with, "and" the word between the teams, "details" the word *)
(* clean_team removes, "A" a team name, "news" any other word.             *)
(***************************************************************************)
NoTeams == [tag |-> "None"]

\* re.sub(r"\s*details\s*$", "", x)
clean_team(x) ==
    IF x # <<>> /\ x[Len(x)] = "details" THEN SubSeq(x, 1, Len(x) - 1) ELSE x

\* re.match(r"^\s*match\s+(.+?)\s+and\s+(.+)$", t): the first "and" that
\* leaves a word on both sides
parse_teams_from_title(title) ==
    LET ands == {k \in 3..(Len(title) - 1) : title[k] = "and"} IN
    IF title = <<>> \/ Head(title) # "match" \/ ands = {} THEN NoTeams
    ELSE LET k == CHOOSE a \in ands : \A b \in ands : a <= b
         IN [home |-> clean_team(SubSeq(title, 2, k - 1)),
             away |-> clean_team(SubSeq(title, k + 1, Len(title)))]

\* a \d{1,2}:\d{2} token, or none
NoClock == <<>>
Clock(hh, mm) == <<hh, mm>>

\* a "day month-name year" expression, or none
NoDayMonthYear == <<>>
DayMonthYear(d, m, y) == <<d, m, y>>

\* extract_time: `published` if it is a clock token, else the first one in text
extract_time(rec) ==
    IF rec.published # NoClock THEN rec.published ELSE rec.text.time

\* parse_ar_date of extract_matches.py: the numbers are formatted, not checked
parse_ar_date(text) ==
    IF text.date = NoDayMonthYear THEN EmptyKey
    ELSE <<text.date[3], text.date[2], text.date[1]>>

MatchRec(url, title, published, time, date) ==
    [kind |-> "object", url |-> url, title |-> title, published |-> published,
     text |-> [time |-> time, date |-> date]]

MatchRecs ==
    { [kind |-> "nonobject", url |-> "", title |-> <<>>, published |-> NoClock,
       text |-> [time |-> NoClock, date |-> NoDayMonthYear]],
      MatchRec("u1", <<"match", "A", "and", "A">>, Clock(20, 0), NoClock, DayMonthYear(14, 8, 2025)),
      MatchRec("u1", <<"match", "A", "and", "A", "details">>, NoClock, Clock(21, 30), NoDayMonthYear),
      MatchRec("u2", <<"match", "A", "and", "details">>, Clock(20, 0), NoClock, NoDayMonthYear),
      MatchRec("u2", <<"match", "A", "and", "A">>, Clock(99, 99), NoClock, DayMonthYear(31, 2, 2025)),
      MatchRec("u2", <<"match", "A">>, Clock(20, 0), NoClock, NoDayMonthYear),
      MatchRec("u2", <<"match", "A", "and", "A">>, NoClock, NoClock, DayMonthYear(14, 8, 2025)),
      MatchRec("u2", <<"news", "A", "and", "A">>, Clock(20, 0), NoClock, NoDayMonthYear),
      MatchRec("", <<"match", "A", "and", "A">>, Clock(20, 0), NoClock, NoDayMonthYear) }

\* a path of the list: a file that does not exist, or its lines
MissingFile == [exists |-> FALSE, recs |-> <<>>]
JsonlFile(recs) == [exists |-> TRUE, recs |-> recs]

RecLists(n) == UNION {[1..k -> MatchRecs] : k \in 0..n}

\* the two default inputs: the raw articles file and the chunked file
PathLists ==
    {<<MissingFile, JsonlFile(r)>> : r \in RecLists(MaxRecs)}
    \cup UNION {{<<JsonlFile(r1), JsonlFile(r2)>> : r2 \in RecLists(MaxRecs - Len(r1))}
                   : r1 \in RecLists(MaxRecs)}

\* sort_key: (datetime, title); strptime fails on a date or time that does
\* not exist and the key is then the last minute of the year 9999
WordRank(w) ==
    CASE w = "A" -> 1 [] w = "details" -> 2 [] w = "news" -> 3
      [] w = "match" -> 4 [] w = "and" -> 5

strptime(date, time) ==
    LET d == IF date = EmptyKey THEN <<9999, 12, 31>> ELSE date IN
    IF /\ d[2] \in 1..12 /\ d[3] >= 1 /\ d[3] <= DaysInMonth(d[1], d[2])
       /\ time[1] <= 23 /\ time[2] <= 59
    THEN d \o time
    ELSE <<9999, 12, 31, 23, 59>>

sort_key(r) == strptime(r.date, r.time) \o [k \in DOMAIN r.title |-> WordRank(r.title[k])]

\* tuple comparison
RECURSIVE LexLess(_, _)
LexLess(a, b) ==
    IF b = <<>> THEN FALSE
    ELSE IF a = <<>> THEN TRUE
    ELSE IF Head(a) # Head(b) THEN Head(a) < Head(b)
    ELSE LexLess(Tail(a), Tail(b))

\* rows.sort(key=sort_key): ascending and stable
SortRows(rows) ==
    LET o == CHOOSE q \in Orders(DOMAIN rows) :
                 \A a, b \in DOMAIN q :
                     a < b => \/ LexLess(sort_key(rows[q[a]]), sort_key(rows[q[b]]))
                              \/ (sort_key(rows[q[a]]) = sort_key(rows[q[b]]) /\ q[a] < q[b])
    IN [k \in DOMAIN rows |-> rows[o[k]]]

MatchRow(date, time, teams, title, url) ==
    [date |-> date, time |-> time, home |-> teams.home, away |-> teams.away,
     title |-> title, url |-> url]

\* `url in seen_urls`
SeenUrl_never(url, seen_urls) == FALSE
SeenUrl(url, seen_urls) == url \in seen_urls

\* the record is passed over: no url or a seen one, no match title, no
\* teams, no time
Skips(rec, seen_urls) ==
    \/ rec.url = ""
    \/ SeenUrl(rec.url, seen_urls)
    \/ rec.title = <<>> \/ Head(rec.title) # "match"
    \/ parse_teams_from_title(rec.title) = NoTeams
    \/ extract_time(rec) = NoClock

NoExtraction ==
    [pc |-> "idle", paths |-> <<>>, p |-> 1, i |-> 1, seen_urls |-> {}, rows |-> <<>>]

MatchIdle == xm = NoExtraction

ExtractInputs ==
    \E paths \in PathLists : xm = [NoExtraction EXCEPT !.pc = "paths", !.paths = paths]

InFile == xm.pc = "paths" /\ xm.p <= Len(xm.paths) /\ xm.paths[xm.p].exists

AtRecord == InFile /\ xm.i <= Len(xm.paths[xm.p].recs)

CurRec == xm.paths[xm.p].recs[xm.i]

\* `if not p.exists(): continue`
ExtractMissingPath ==
    /\ xm.pc = "paths" /\ xm.p <= Len(xm.paths) /\ ~xm.paths[xm.p].exists
    /\ xm' = [xm EXCEPT !.p = @ + 1, !.i = 1]
    /\ UNCHANGED otherThanMatch

\* a line whose JSON value has no .get: AttributeError leaves extract_matches
ExtractNonObject ==
    /\ AtRecord
    /\ CurRec.kind = "nonobject"
    /\ xm' = [xm EXCEPT !.pc = "raised"]
    /\ UNCHANGED otherThanMatch

ExtractSkipRecord ==
    /\ AtRecord
    /\ CurRec.kind = "object"
    /\ Skips(CurRec, xm.seen_urls)
    /\ xm' = [xm EXCEPT !.i = @ + 1]
    /\ UNCHANGED otherThanMatch

ExtractAppendRow ==
    /\ AtRecord
    /\ CurRec.kind = "object"
    /\ ~Skips(CurRec, xm.seen_urls)
    /\ xm' = [xm EXCEPT
                 !.rows = Append(@, MatchRow(parse_ar_date(CurRec.text), extract_time(CurRec),
                                             parse_teams_from_title(CurRec.title),
                                             CurRec.title, CurRec.url)),
                 !.seen_urls = @ \cup {CurRec.url},
                 !.i = @ + 1]
    /\ UNCHANGED otherThanMatch

\* the file is read: the next path
ExtractEndOfFile ==
    /\ InFile
    /\ xm.i > Len(xm.paths[xm.p].recs)
    /\ xm' = [xm EXCEPT !.p = @ + 1, !.i = 1]
    /\ UNCHANGED otherThanMatch

\* the paths are read: the rows are sorted and returned
ExtractReturn ==
    /\ xm.pc = "paths"
    /\ xm.p > Len(xm.paths)
    /\ xm' = [xm EXCEPT !.pc = "returned", !.rows = SortRows(@)]
    /\ UNCHANGED otherThanMatch

ExtractNext ==
    \/ ExtractMissingPath
    \/ ExtractNonObject
    \/ ExtractSkipRecord
    \/ ExtractAppendRow
    \/ ExtractEndOfFile
    \/ ExtractReturn

(***************************************************************************)
(* The specifications.                                                     *)
(***************************************************************************)
CrawlInit == KooraCrawler /\ NormIdle /\ IndexIdle /\ ChatIdle /\ LookupIdle /\ FetchIdle /\ ChunkIdle /\ PrepIdle /\ MatchIdle

SpecCrawl == CrawlInit /\ [][CrawlNext]_vars

\* the interpreter keeps running the loop of the method that was called
LiveCrawl == CrawlInit /\ [][CrawlNext]_vars /\ WF_vars(CrawlNext)

NormInit == NormInputs /\ CrawlIdle /\ IndexIdle /\ ChatIdle /\ LookupIdle /\ FetchIdle /\ ChunkIdle /\ PrepIdle /\ MatchIdle

SpecNormalize == NormInit /\ [][NormNext]_vars

IndexInit == IndexIdle /\ CrawlIdle /\ NormIdle /\ ChatIdle /\ LookupIdle /\ FetchIdle /\ ChunkIdle /\ PrepIdle /\ MatchIdle

SpecIndex == IndexInit /\ [][IndexNext]_vars

SpecReindex == IndexInit /\ [][ReindexNext]_vars

ChatInit == LoadMatches /\ CrawlIdle /\ NormIdle /\ IndexIdle /\ LookupIdle /\ FetchIdle /\ ChunkIdle /\ PrepIdle /\ MatchIdle

SpecChat == ChatInit /\ [][ChatNext]_vars

LookupInit == LookupInputs /\ CrawlIdle /\ NormIdle /\ IndexIdle /\ ChatIdle /\ FetchIdle /\ ChunkIdle /\ PrepIdle /\ MatchIdle

SpecLookup == LookupInit /\ [][LookupNext]_vars

FetchInit == FetchIdle /\ CrawlIdle /\ NormIdle /\ IndexIdle /\ ChatIdle /\ LookupIdle /\ ChunkIdle /\ PrepIdle /\ MatchIdle

SpecFetcher == FetchInit /\ [][FetcherNext]_vars

SpecPages == FetchInit /\ [][PagesNext]_vars

ChunkInit ==
    ChunkInputs /\ CrawlIdle /\ NormIdle /\ IndexIdle /\ ChatIdle /\ LookupIdle /\ FetchIdle /\ PrepIdle /\ MatchIdle

SpecChunk == ChunkInit /\ [][ChunkNext]_vars

PrepInit ==
    PrepInputs /\ CrawlIdle /\ NormIdle /\ IndexIdle /\ ChatIdle /\ LookupIdle /\ FetchIdle /\ ChunkIdle /\ MatchIdle

SpecPrepare == PrepInit /\ [][PrepNext]_vars

ExtractInit ==
    ExtractInputs /\ CrawlIdle /\ NormIdle /\ IndexIdle /\ ChatIdle /\ LookupIdle /\ FetchIdle /\ ChunkIdle /\ PrepIdle

SpecExtract == ExtractInit /\ [][ExtractNext]_vars

(***************************************************************************)
(* Crawler claims.                                                         *)
(***************************************************************************)
Range(f) == {f[i] : i \in DOMAIN f}

\* C1: within one invocation of crawl() or crawl_with_depth() no URL is
\* passed to fetch more than once, whatever the link graph.
C1_FetchedAtMostOnce ==
    \A i, j \in DOMAIN fetched : fetched[i] = fetched[j] => i = j

\* a URL that was fetched sits in the queue again (it was enqueued twice
\* before it was dequeued) and waits to be skipped
C1_Witness ==
    \/ cpc = "crawl" /\ \E i \in DOMAIN queue : queue[i] \in Range(fetched)
    \/ cpc = "depth" /\ \E i \in DOMAIN dqueue : dqueue[i][1] \in Range(fetched)

\* C2: when rp.read() raised in the constructor, allowed(url) is true of
\* every URL passed to fetch and fetch issues the HTTP request for it.
C2_FailOpen ==
    robotsRead = "raised" =>
        \A i \in DOMAIN fetched :
            allowed(rp, fetched[i]) /\ fetched[i] \in Range(requested)

\* C3: a failure while processing a single page never ends crawl() or
\* crawl_with_depth(): no exception leaves the loop.
C3_NeverAborts == cpc # "aborted" /\ raised = "none"

\* C4: normalize_link never raises: it returns a URL or None for every href.
C4_NormalizeNeverRaises == nl.result # ValueError

(***************************************************************************)
(* Indexer claims.                                                         *)
(***************************************************************************)
Chunk(p) == <<p.source, p.chunk_index, p.text>>

RECURSIVE OkSizes(_)
OkSizes(ups) ==
    IF ups = <<>> THEN 0
    ELSE (IF Head(ups).ok THEN Head(ups).size ELSE 0) + OkSizes(Tail(ups))

NoStoreError(rn) == \A i \in DOMAIN rn.upserts : rn.upserts[i].ok

\* C5: indexing the same chunk record (same source_url, chunk_index and
\* text) twice, in one run or in repeated runs, gives the same point id both
\* times and exactly one point for that chunk in the store.
C5_Idempotent ==
    /\ \A e1, e2 \in upserted :
          Chunk(e1[4]) = Chunk(e2[4]) => e1[4].id = e2[4].id
    /\ \A e \in upserted :
          Cardinality({q \in store : Chunk(q) = Chunk(e[4])}) = 1

\* one chunk was upserted by two calls, and one twice by the same call
C5_Witness ==
    /\ \E e1, e2 \in upserted : Chunk(e1[4]) = Chunk(e2[4]) /\ e1[1] # e2[1]
    /\ \E e1, e2 \in upserted :
          Chunk(e1[4]) = Chunk(e2[4]) /\ e1[1] = e2[1] /\ e1 # e2

\* C6 as stated: after any sequence of index_dataset runs the store holds at
\* most one point per (source_url, chunk_index) pair.
C6_OnePointPerPair ==
    \A p, q \in store :
        (p.source = q.source /\ p.chunk_index = q.chunk_index) => p = q

\* C6 as amended: after any sequence of index_dataset runs the store holds at
\* most one point per (source_url, chunk_index, text) triple.
C6_OnePointPerChunkText ==
    \A p, q \in store : Chunk(p) = Chunk(q) => p = q

\* two runs are under way at once on a store that already holds two texts of
\* one (source_url, chunk_index) pair, one of them upserted by both calls
C6_Witness ==
    /\ \A r \in Slots : run[r].pc \in {"loop", "flush"}
    /\ \E p, q \in store :
          p # q /\ p.source = q.source /\ p.chunk_index = q.chunk_index
    /\ \E e1, e2 \in upserted : Chunk(e1[4]) = Chunk(e2[4]) /\ e1[1] # e2[1]

C8_FailedUpsert ==
    \A r \in Slots :
        LET rn == run[r]
            failed == {i \in DOMAIN rn.upserts : ~rn.upserts[i].ok}
            mine == {e \in upserted : e[1] = rn.call}
        IN failed # {} =>
           /\ rn.pc = "done"
           /\ failed = {Len(rn.upserts)}
           /\ rn.result.ok = FALSE
           /\ rn.result.reason # ""
           /\ rn.result.indexed_chunks = OkSizes(rn.upserts)
           /\ rn.result.indexed_chunks = Cardinality(mine)
           /\ \A e \in mine : e[4] \in store

\* the second or a later batch failed after a batch was stored
C8_Witness ==
    \E r \in Slots :
        /\ Len(run[r].upserts) >= 2
        /\ ~run[r].upserts[Len(run[r].upserts)].ok
        /\ run[r].result.indexed_chunks > 0

\* C9: a blank line, a // line and a malformed line (invalid JSON, or valid
\* JSON that is no object) are skipped: a run without limit and without store
\* error returns ok and has indexed every valid record of the file.
C9_MalformedLinesSkipped ==
    \A r \in Slots :
        LET rn == run[r] IN
        (rn.pc = "done" /\ ~rn.limit.set /\ NoStoreError(rn)) =>
           /\ rn.result.ok
           /\ rn.result.indexed_chunks = ValidCount(rn.dataset)

(***************************************************************************)
(* Chat handler claims.                                                    *)
(***************************************************************************)
\* the lookup found matches to report, of the day asked for or of a fallback day
HasAnswer(ans) ==
    ans.text \in {"matches of the day", "nearest next day", "last past day"}

\* C10: in the general-query branch of the chat handler search_rag is called
\* when, and only when, find_matches_message has no answer for the message;
\* a query with no recognized date, or with no matches, reaches search_rag.
C10_RagIffNoAnswer ==
    lastTurn.branch = "matches" =>
        (("search_rag" \in Range(lastTurn.calls)) <=> ~HasAnswer(lastTurn.matches_ans))

(***************************************************************************)
(* Match lookup claims.                                                    *)
(***************************************************************************)
Searched == fmm.result # NotApplied

\* the date the query resolves to
Resolved == _parse_ar_date(fmm.q, fmm.now)

\* the known dates of the corpus: its non-empty keys
KnownDates == DOMAIN fmm.corpus \ {EmptyKey}

\* C11: find_matches_message never raises: a text without a recognizable
\* date, and a numeric text that is no calendar date, get the clarification
\* prompt, and /matches/search never surfaces an exception.
C11_LookupNeverRaises ==
    Searched =>
        /\ fmm.result.text # "ValueError"
        /\ fmm.status = 200
        /\ Resolved \in {NoDate, DateValueError} => fmm.result.text = "specify the date"

\* C12: for a resolved date without exact match the lookup reports the least
\* known date after the key if there is one (also when a past date is
\* closer), else the greatest known date before it, and lists at most 10
\* matches of that day.
C12_NearestFallback ==
    (Searched /\ Resolved \notin {NoDate, DateValueError}) =>
        LET key == isoformat(Resolved.day)
            after == {k \in KnownDates : KeyLess(key, k)}
            before == {k \in KnownDates : KeyLess(k, key)}
            day == fmm.result.day
        IN key \notin DOMAIN fmm.corpus =>
            /\ after # {} =>
                  /\ fmm.result.text = "nearest next day"
                  /\ day \in after
                  /\ \A k \in after : ~KeyLess(k, day)
            /\ (after = {} /\ before # {}) =>
                  /\ fmm.result.text = "last past day"
                  /\ day \in before
                  /\ \A k \in before : ~KeyLess(day, k)
            /\ (after # {} \/ before # {}) =>
                  /\ fmm.result.listed <= ListCap
                  /\ fmm.result.listed = Min(fmm.corpus[day], ListCap)

\* a day between two known dates, next to the past one, with a long next day
C12_Witness ==
    /\ Searched
    /\ Resolved = DateOf(Date(2025, 2, 13))
    /\ fmm.result.day = isoformat(Date(2025, 12, 31))
    /\ isoformat(Date(2025, 2, 12)) \in DOMAIN fmm.corpus
    /\ fmm.corpus[fmm.result.day] > ListCap
    /\ fmm.result.listed = ListCap

\* C13: with no known date in the corpus (no record, or only records with an
\* empty date field) every resolved date gets the empty-dataset message, and
\* a reported fallback day is never the empty-date group.
C13_EmptyCorpusMessage ==
    (Searched /\ Resolved \notin {NoDate, DateValueError}) =>
        /\ KnownDates = {} => fmm.result.text = "dataset is empty"
        /\ fmm.result.text \in {"nearest next day", "last past day"} =>
              fmm.result.day # EmptyKey

(***************************************************************************)
(* The Page Record file and the seen file.                                 *)
(***************************************************************************)
Lines(file) == {file[i] : i \in DOMAIN file}

NoRepeat(seq) == \A i, j \in DOMAIN seq : seq[i] = seq[j] => i = j

\* C14: the Page Record file is append-only across crawler runs and fetcher
\* runs: every step leaves the records already in it in place, unaltered.
C14_AppendOnly ==
    [][/\ Len(outFile') >= Len(outFile)
       /\ SubSeq(outFile', 1, Len(outFile)) = outFile]_vars

\* C15: over sequential fetcher runs on one seen file and one output file,
\* no url is passed to extract_page twice and the output holds at most one
\* Page Record per url.
C15_OncePerUrl ==
    /\ NoRepeat(extracted)
    /\ NoRepeat([i \in DOMAIN outFile |-> outFile[i].url])

\* C16: every url on which extract_page was attempted is in the seen file,
\* whatever the outcome, is never attempted again, and the in-memory seen
\* set of the running fetcher is the set of lines of the seen file (as
\* written, or as load_seen reads them).
C16_SeenWhateverTheOutcome ==
    /\ Lines(extracted) \subseteq Lines(seenFile)
    /\ \A i, j \in DOMAIN extracted : i < j => extracted[i] # extracted[j]
    /\ fr.pc \in {"dates", "links", "done"} =>
          \/ fr.seen = Lines(seenFile)
          \/ fr.seen = load_seen(seenFile)

(***************************************************************************)
(* The chunker.                                                            *)
(***************************************************************************)
RECURSIVE WordsOf(_)
WordsOf(chunks) ==
    IF chunks = <<>> THEN <<>> ELSE split(Head(chunks)) \o WordsOf(Tail(chunks))

LastWord(chunk) == split(chunk)[Len(split(chunk))]

\* C17: joining the chunks with a space and splitting on whitespace gives
\* the words of the text, in order; the words of the chunks taken one chunk
\* after the other are the same sequence (no word is cut by a chunk
\* boundary), and no chunk is empty.
C17_RoundTrip ==
    ck.returned =>
        /\ split(join(Space, ck.chunks)) = split(ck.text)
        /\ WordsOf(ck.chunks) = split(ck.text)
        /\ \A i \in DOMAIN ck.chunks : ck.chunks[i] # <<>>

\* a text that is not its own join (whitespace runs) cut into several chunks
C17_Witness ==
    /\ ck.returned
    /\ Len(ck.chunks) >= 2
    /\ join(Space, ck.chunks) # ck.text
    /\ \E i \in DOMAIN ck.chunks : Len(split(ck.chunks[i])) >= 2

\* C18: when no word of the text is longer than max_chars, no chunk is
\* longer than max_chars.
C18_AtMostMaxChars ==
    (ck.returned /\ \A i \in DOMAIN split(ck.text) : Len(split(ck.text)[i]) <= ck.max_chars)
        => \A i \in DOMAIN ck.chunks : Len(ck.chunks[i]) <= ck.max_chars

\* C19: a chunk is at most max_chars plus its last word long (its words
\* before the last one, each with its separator, did not exceed max_chars),
\* and every chunk but the last one was flushed because its words, each
\* with its separator, exceed max_chars.
C19_OvershootOneWord ==
    ck.returned =>
        /\ \A i \in DOMAIN ck.chunks :
              Len(ck.chunks[i]) <= ck.max_chars + Len(LastWord(ck.chunks[i]))
        /\ \A i \in 1..(Len(ck.chunks) - 1) : Len(ck.chunks[i]) + 1 > ck.max_chars

\* a chunk of several words that is longer than max_chars, and a last chunk
\* that was not flushed by the loop
C19_Witness ==
    /\ ck.returned
    /\ Len(ck.chunks) >= 2
    /\ \E i \in DOMAIN ck.chunks :
          Len(ck.chunks[i]) > ck.max_chars /\ Len(split(ck.chunks[i])) >= 2
    /\ Len(ck.chunks[Len(ck.chunks)]) < ck.max_chars

(***************************************************************************)
(* The dataset preparer.                                                   *)
(***************************************************************************)
\* the chunks of input line l, as process cuts them
ChunksOfLine(l) ==
    chunk_text(normalize_ws(prep.lines[l].text), prep.chunk_size)

\* input line l is an article that process has chunked
Kept(l) ==
    /\ l <= prep.i
    /\ prep.lines[l].kind = "article"
    /\ Len(normalize_ws(prep.lines[l].text)) >= prep.min_chars
    /\ ~is_boilerplate(normalize_ws(prep.lines[l].text), prep.bad_repeat_threshold)

\* C20: with dedupe, no two records of the output have the same text, and
\* the record kept for a text is its first occurrence in input order: no
\* earlier chunked line, and no earlier chunk of the same line, has it.
C20_DedupeKeepsFirst ==
    prep.dedupe =>
        /\ \A m, n \in DOMAIN prep.out : prep.out[m].text = prep.out[n].text => m = n
        /\ \A m \in DOMAIN prep.out :
              \A l \in 1..prep.out[m].line :
                  Kept(l) =>
                      \A k \in DOMAIN ChunksOfLine(l) :
                          ChunksOfLine(l)[k] = prep.out[m].text =>
                              l = prep.out[m].line /\ k - 1 >= prep.out[m].chunk_index

\* a run with dedupe that dropped a chunk of the document it was reading and
\* a chunk of a later document
C20_Witness ==
    /\ prep.dedupe
    /\ prep.pc = "returned"
    /\ Len(prep.out) >= 2
    /\ \E l \in DOMAIN prep.lines :
          Kept(l) /\ \E j, k \in DOMAIN ChunksOfLine(l) :
              j < k /\ ChunksOfLine(l)[j] = ChunksOfLine(l)[k]
    /\ \E l1, l2 \in DOMAIN prep.lines :
          /\ l1 < l2 /\ Kept(l1) /\ Kept(l2)
          /\ \E j \in DOMAIN ChunksOfLine(l1), k \in DOMAIN ChunksOfLine(l2) :
                ChunksOfLine(l1)[j] = ChunksOfLine(l2)[k]

\* C21: the chunk_index of a written record is the 0-based position of its
\* text in the chunks of its own document, whatever was dropped before it,
\* so the indices written for one document increase strictly.
C21_IndexIsPosition ==
    /\ \A m \in DOMAIN prep.out :
          /\ Kept(prep.out[m].line)
          /\ prep.out[m].chunk_index + 1 \in DOMAIN ChunksOfLine(prep.out[m].line)
          /\ ChunksOfLine(prep.out[m].line)[prep.out[m].chunk_index + 1] = prep.out[m].text
    /\ \A m, n \in DOMAIN prep.out :
          (m < n /\ prep.out[m].line = prep.out[n].line)
              => prep.out[m].chunk_index < prep.out[n].chunk_index

\* a document whose chunk 0 was dropped as a duplicate and whose chunk 1 was
\* written, after a document that wrote chunk 0
C21_Witness ==
    /\ prep.dedupe
    /\ \E m, n \in DOMAIN prep.out :
          /\ prep.out[m].line = 1 /\ prep.out[m].chunk_index = 0
          /\ prep.out[n].line = 2 /\ prep.out[n].chunk_index = 1
          /\ \A k \in DOMAIN prep.out : prep.out[k].line = 2 => k = n

\* the normalized text of input line l
TextOfLine(l) == normalize_ws(prep.lines[l].text)

Short(l) == Len(TextOfLine(l)) < prep.min_chars

Boiler(l) == Repeats(TextOfLine(l)) >= prep.bad_repeat_threshold

ArticlesRead(P(_)) ==
    Cardinality({l \in 1..prep.i : prep.lines[l].kind = "article" /\ P(l)})

IsShort(l) == Short(l)
IsBoilerOnly(l) == ~Short(l) /\ Boiler(l)

\* C22: an article whose normalized text is shorter than min_chars, or
\* holds the trigger phrases bad_repeat_threshold times or more, has no
\* record in the output; skipped_short counts the short articles and
\* skipped_boiler the other boilerplate articles, each article once.
C22_SkippedArticles ==
    /\ \A m \in DOMAIN prep.out :
          ~Short(prep.out[m].line) /\ ~Boiler(prep.out[m].line)
    /\ prep.stats.skipped_short = ArticlesRead(IsShort)
    /\ prep.stats.skipped_boiler = ArticlesRead(IsBoilerOnly)

\* a run that read a boilerplate article long enough to be kept and a
\* boilerplate article that is short
C22_Witness ==
    /\ prep.pc = "returned"
    /\ prep.stats.skipped_boiler = 1
    /\ prep.stats.skipped_short = 1
    /\ \E l \in 1..prep.i :
          prep.lines[l].kind = "article" /\ Short(l) /\ Boiler(l)

(***************************************************************************)
(* The crawl loops: budget, depth, delay, robots.                          *)
(***************************************************************************)
\* C23: crawl() writes at most max_pages rows to the pages CSV, and
\* crawl_with_depth(max_pages = N) collects at most N documents and does not
\* go on once N documents are collected.
C23_BudgetBounds ==
    /\ Len(csvRows) <= max_pages
    /\ dmax_pages.set => Len(results) <= dmax_pages.n
    /\ (cpc = "depth" /\ dmax_pages.set /\ fetched # <<>>) => Len(results) < dmax_pages.n

\* C24: crawl_with_depth starts with the start URL at depth 0, fetches no
\* URL whose depth exceeds max_depth, and whatever a step appends to the
\* queue has the depth of the page being read plus one, that page being at
\* a depth below max_depth.
C24_DepthBound ==
    [][/\ (cpc = "idle" /\ cpc' = "depth") => dqueue' = <<<<BaseUrl, 0>>>>
       /\ (cpc = "depth" /\ dqueue # <<>>) =>
             /\ fetched' # fetched => DDepth <= max_depth
             /\ \A i \in Len(dqueue)..Len(dqueue') :
                   dqueue'[i][2] = DDepth + 1 /\ DDepth < max_depth]_vars

\* a page at depth max_depth >= 1 was fetched and gave a document
C24_Witness ==
    /\ invocations = <<"crawl_with_depth">>
    /\ max_depth = 1
    /\ Len(results) >= 2
    /\ dqueue = <<>>

\* C25: in both loops the calls of fetch and of sleep alternate, starting
\* with fetch: one sleep follows every fetch, whatever fetch returned, and
\* no fetch starts before the sleep after the one before it.
C25_OneDelayPerFetch ==
    /\ Len(timeline) = 2 * Len(fetched)
    /\ \A i \in DOMAIN timeline :
          timeline[i] = IF i % 2 = 1 THEN "fetch" ELSE "sleep"

\* two fetches, one of which issued no request
C25_Witness ==
    /\ Len(fetched) >= 2
    /\ Len(requested) < Len(fetched)
    /\ Len(timeline) >= 4

\* C26: a step that calls fetch on a URL robots disallows issues no
\* request, writes no CSV row and no Page Record, collects no document,
\* queues no link, leaves the page count alone and stays in the loop.
C26_RobotsSkip ==
    [][(fetched' # fetched /\ ~allowed(rp, fetched'[Len(fetched')])) =>
          /\ requested' = requested
          /\ csvRows' = csvRows
          /\ articles' = articles
          /\ results' = results
          /\ pages_count' = pages_count
          /\ cpc' = cpc
          /\ cpc = "crawl" => queue' = Tail(queue)
          /\ cpc = "depth" => dqueue' = Tail(dqueue)]_vars

\* a disallowed URL was skipped and the next queue entry was requested
C26_Witness ==
    \E i \in 1..(Len(fetched) - 1) :
        /\ ~allowed(rp, fetched[i])
        /\ \E j \in DOMAIN requested : requested[j] = fetched[i + 1]

IsUrl(x) == x \notin {NotApplied, NoneResult, ValueError}

C29_CompleteRows ==
    \A m \in DOMAIN xm.rows :
        /\ xm.rows[m].home # <<>>
        /\ xm.rows[m].away # <<>>
        /\ xm.rows[m].time # NoClock

\* C30: no two rows have the same url, whatever the files hold.
C30_UniqueUrls ==
    \A m, n \in DOMAIN xm.rows : xm.rows[m].url = xm.rows[n].url => m = n

\* both files hold a match record of the same url and one row was returned
C30_Witness ==
    /\ xm.pc = "returned"
    /\ Len(xm.rows) = 1
    /\ \E a \in DOMAIN xm.paths[1].recs, b \in DOMAIN xm.paths[2].recs :
          /\ xm.paths[1].recs[a].url = xm.rows[1].url
          /\ xm.paths[2].recs[b].url = xm.rows[1].url
          /\ parse_teams_from_title(xm.paths[2].recs[b].title) # NoTeams
          /\ extract_time(xm.paths[2].recs[b]) # NoClock

\* C31: every row's date is empty or a day that exists in the calendar, and
\* its time is a time of day.
C31_ValidDateAndTime ==
    \A m \in DOMAIN xm.rows :
        /\ \/ xm.rows[m].date = EmptyKey
           \/ /\ xm.rows[m].date[2] \in 1..12
              /\ xm.rows[m].date[3] \in 1..DaysInMonth(xm.rows[m].date[1], xm.rows[m].date[2])
        /\ xm.rows[m].time[1] \in 0..23
        /\ xm.rows[m].time[2] \in 0..59

(***************************************************************************)
(* Date resolution of the match lookup.                                    *)
(***************************************************************************)
\* the numbers y, mo, d are read as that calendar day: the lookup resolves to
\* it when it exists and to no other day when it does not
TakenAs(y, mo, d) ==
    IF mo \in 1..12 /\ d \in 1..DaysInMonth(y, mo)
    THEN Resolved = DateOf(Date(y, mo, d))
    ELSE Resolved = DateValueError

\* the day after and the day before the clock readings of the model
Tomorrow(now) ==
    IF now = Date(2025, 2, 28) THEN Date(2025, 3, 1) ELSE Date(2026, 1, 1)
Yesterday(now) ==
    IF now = Date(2025, 2, 28) THEN Date(2025, 2, 27) ELSE Date(2025, 12, 30)

LinkingPages(j) == {i \in DOMAIN walk : fetched[j] \in walk[i].links}

\* C33: crawl_with_depth fetches in breadth-first order: the depths of the
\* fetched urls never decrease, and every fetched url other than the start
\* is fetched one level below the shallowest fetched page that links to it.
C33_BreadthFirst ==
    invocations = <<"crawl_with_depth">> =>
        /\ \A i, j \in DOMAIN walk : i < j => walk[i].depth <= walk[j].depth
        /\ walk # <<>> => walk[1].depth = 0
        /\ \A j \in DOMAIN walk \ {1} :
              /\ \E i \in LinkingPages(j) : walk[j].depth = walk[i].depth + 1
              /\ \A i \in LinkingPages(j) : walk[j].depth <= walk[i].depth + 1

\* a url linked from the start page and from a page of depth 1 was fetched
\* at depth 1, and the walk came to its end
C33_Witness ==
    /\ invocations = <<"crawl_with_depth">>
    /\ cpc = "done"
    /\ Len(walk) = 3
    /\ walk[3].depth = 1
    /\ LinkingPages(3) = {1, 2}
    /\ walk[2].depth = 1

\* C34: in crawl() every link of the site carried by a page fetched with
\* status 200 and an HTML content type, and not yet visited, is in the queue
\* after the page was processed, whether or not the page looks like an
\* article or was saved; a page with another status or content type queues
\* nothing and saves no article.
C34_LinksAlwaysQueued ==
    [][(cpc = "crawl" /\ Len(walk') = Len(walk) + 1) =>
          LET page == walk'[Len(walk')] IN
          IF page.resp = "html200"
          THEN \A l \in page.links \ visited' :
                  \E k \in DOMAIN queue' : queue'[k] = l
          ELSE queue' = Tail(queue) /\ articles' = articles]_vars

\* C36: crawl() passes at most max_pages urls to fetch, also when fetches
\* fail or are disallowed.
C36_AtMostMaxPagesFetched ==
    invocations = <<"crawl">> => Len(fetched) <= max_pages

\* every call of crawl() and of crawl_with_depth() comes to an end, by its
\* return or by an exception
CrawlTerminates == (cpc \in {"crawl", "depth"}) ~> (cpc \in {"done", "aborted"})

\* every iteration discards a queue entry, and either the entry was visited
\* already or its url is new in visited
IterationProgress ==
    [][/\ (cpc = "crawl" /\ queue' # queue) =>
             \/ Head(queue) \in visited /\ visited' = visited /\ queue' = Tail(queue)
             \/ Head(queue) \notin visited /\ visited' = visited \cup {Head(queue)}
       /\ (cpc = "depth" /\ dqueue' # dqueue) =>
             \/ DUrl \in dvisited /\ dvisited' = dvisited /\ dqueue' = Tail(dqueue)
             \/ DUrl \notin dvisited /\ dvisited' = dvisited \cup {DUrl}]_vars

\* C35: crawl() and crawl_with_depth() terminate, and the page budget is
\* tested at each iteration boundary: no iteration starts, and nothing is
\* fetched, once the page count has reached the budget.
C35_BudgetTestedAtBoundary ==
    [][/\ (cpc = "crawl" /\ pages_count >= max_pages) => fetched' = fetched
       /\ (cpc = "depth" /\ dmax_pages.set /\ pages_count >= dmax_pages.n) =>
             fetched' = fetched]_vars

(***************************************************************************)
(* Booking, cancelling and small talk in the chat handler.                 *)
(***************************************************************************)
\* the slots of the one session of the model, before its first turn too
SlotsOf(ss) == get_slots(ss, "s1")

\* C37: book_ticket is called only with a day and a time that the session's
\* slots both hold, a slot filled in an earlier turn staying filled until the
\* session is cleared; the turn of a booking replies action = booked and
\* leaves the slots empty and the expectation None.
C37_BookingNeedsBothSlots ==
    [][/\ ("book_ticket" \in Range(lastTurn'.calls) \/ lastTurn'.action = "booked"
           \/ issued' # issued \/ _db' \ _db # {}) =>
             /\ lastTurn'.action = "booked"
             /\ issued' = issued + 1
             /\ \E t \in _db' \ _db :
                   /\ _db' = _db \cup {t}
                   /\ t.day # "" /\ t.time # ""
                   /\ lastTurn'.branch = "booking.ask" =>
                         (t.day = SlotsOf(sessions).day /\ t.time = SlotsOf(sessions).time)
             /\ sessions'["s1"].slots = NoSlots
             /\ sessions'["s1"].expectation = "None"
       /\ lastTurn'.action = "None" =>
             /\ SlotsOf(sessions).day # "" => SlotsOf(sessions').day # ""
             /\ SlotsOf(sessions).time # "" => SlotsOf(sessions').time # ""]_vars

\* a ticket was booked in the third turn of a session, for the day that an
\* earlier turn had supplied
C37_Witness ==
    /\ lastTurn.action = "booked"
    /\ Len(sessions["s1"].turns) = 6
    /\ lastTurn.branch = "expect.booking"
    /\ sessions["s1"].slots = NoSlots
    /\ \E t \in _db : t.day = "Fri" /\ t.time = "8"

\* C38: after a turn that ends with action = cancelled the expectation of
\* the session is None, whether the ticket id came with the cancel message
\* or in the turn after the bot asked for it.
C38_CancelClearsExpectation ==
    lastTurn.action = "cancelled" => sessions["s1"].expectation = "None"

\* C39: a message classified as a greeting or as a request for help gets the
\* greeting or the help reply and leaves the slots and the tickets as they
\* were, in every state of the session.
C39_SmalltalkAlwaysAnswered ==
    [][/\ lastTurn'.intent = "smalltalk.greet" => lastTurn'.response = "greeting"
       /\ lastTurn'.intent = "smalltalk.help" => lastTurn'.response = "help"
       /\ lastTurn'.intent \in {"smalltalk.greet", "smalltalk.help"} =>
             (_db' = _db /\ SlotsOf(sessions') = SlotsOf(sessions))]_vars

(***************************************************************************)
(* The chunk records of the Dataset Preparer in the vector store.          *)
(***************************************************************************)
\* the lines of a file that are records with a text
RecordsWithText(ds) == {i \in DOMAIN ds : ds[i].kind = "record" /\ ds[i].text # ""}

\* C40: a run without limit and without store error that returns ok has
\* upserted a point for every record whose text is not empty, a short one
\* included, and reports their number.
C40_EveryRecordIndexed ==
    \A r \in Slots :
        LET rn == run[r] IN
        (rn.pc = "done" /\ ~rn.limit.set /\ NoStoreError(rn) /\ rn.result.ok) =>
           /\ rn.result.indexed_chunks = Cardinality(RecordsWithText(rn.dataset))
           /\ \A i \in RecordsWithText(rn.dataset) :
                 \E q \in store :
                    /\ q.source = rn.dataset[i].url
                    /\ q.chunk_index = rn.dataset[i].chunk_index
                    /\ q.text = rn.dataset[i].text

====
